---- MODULE Spec2Model ----
(***************************************************************************)
(* A model of the Sudoku search core: the Grid (grid.py), the exclusion    *)
(* logic and the SearchSupport facade (searchsupport.py), the search       *)
(* algorithms (bfs.py, dfs.py, ucs.py) and the driver (searchengine.py).   *)
(*                                                                         *)
(* Conventions.  Python's None is the value 0 for a cell value and the     *)
(* empty sequence for a list of unambiguous candidates.  A 9-bit mask is   *)
(* the set of the positions of its 1-bits: a value mask holds the values   *)
(* v whose bit (v - 1) is set, a cell mask the bit numbers 0..8.  The      *)
(* cached counts are kept beside the masks, as in the code.  An object     *)
(* the search copies before it mutates is a value in the model of the      *)
(* search; the calls made on grids and search supports directly work on    *)
(* objects with addresses, so that what a copy shares with its original    *)
(* shows.                                                                  *)
(***************************************************************************)
EXTENDS Integers, Sequences, FiniteSets, TLC

VARIABLES
    puzzle_cells,     \* find_solution argument: the 9 x 9 matrix
    algorithm_name,   \* find_solution argument
    timeout_sec,      \* find_solution argument
    pc,               \* position of the driver inside find_solution / execute
    puzzle,           \* find_solution local: Grid(puzzle_cells)
    algorithm,        \* the search algorithm instance and its state
    search_job,       \* _SearchJob fields
    elapsed,          \* stopwatch.elapsed_time_seconds()
    raised,           \* the exception that left find_solution, or "None"
    summary,          \* the SearchSummary returned, or its absence
    heap,             \* the objects of the calls made on grids and search
                      \* supports directly, by their addresses
    call              \* the call made last on one of these objects

engine_vars == << puzzle_cells, algorithm_name, timeout_sec, pc, puzzle,
                  algorithm, search_job, elapsed, raised, summary >>

object_vars == << heap, call >>

vars == << engine_vars, object_vars >>

-----------------------------------------------------------------------------
(* Bounds of the model *)

\* the largest number of undefined cells of a puzzle in PuzzleInputs
MaxUndefined == 5

\* the largest timeout (in seconds) passed to find_solution
MaxTimeout == 1

-----------------------------------------------------------------------------
(* grid.py *)

Size == 9

RegionSize == 3

Idx == 0 .. (Size - 1)

Values == 1 .. Size

\* The function f as an explicit table of its values: the values of the model
\* are built completely when they are built, as the objects of the code are.
Eager(f) == f @@ << >>

\* Grid.__undefined_cell, Grid.__predefined_cells[value],
\* Grid.__completed_cells[value]
undefined_cell == [value |-> 0, status |-> "UNDEFINED"]

predefined_cells(value) == [value |-> value, status |-> "PREDEFINED"]

completed_cells(value) == [value |-> value, status |-> "COMPLETED"]

\* Grid.get_all_cell_addresses(): row by row
cell_addresses ==
    Eager([i \in 1 .. (Size * Size) |-> << (i - 1) \div Size, (i - 1) % Size >>])

single_region(topmost_row, leftmost_column) ==
    [i \in 1 .. Size |->
        << topmost_row + ((i - 1) \div RegionSize),
           leftmost_column + ((i - 1) % RegionSize) >>]

\* the 27 validation blocks: rows, then columns, then regions
validation_blocks ==
    Eager([b \in 1 .. (3 * Size) |->
        IF b <= Size
            THEN Eager([i \in 1 .. Size |-> << b - 1, i - 1 >>])
        ELSE IF b <= 2 * Size
            THEN Eager([i \in 1 .. Size |-> << i - 1, b - Size - 1 >>])
        ELSE Eager(single_region(
                    RegionSize * ((b - 2 * Size - 1) \div RegionSize),
                    RegionSize * ((b - 2 * Size - 1) % RegionSize)))])

convert_to_cell(cell_values, row, column) ==
    IF cell_values[row][column] = 0
        THEN undefined_cell
        ELSE predefined_cells(cell_values[row][column])

\* the pair __create_from_cell_values returns: the cells and the number of
\* those that are UNDEFINED
cells_with_undefined_cell_count(cells) ==
    [cells |-> cells,
     undefined_cell_count |->
        Size * Size - Cardinality({a \in Idx \X Idx :
                            cells[a[1]][a[2]].status # "UNDEFINED"})]

create_from_cell_values(cell_values) ==
    cells_with_undefined_cell_count(
        Eager([row \in Idx |-> Eager([column \in Idx |->
                    convert_to_cell(cell_values, row, column)])]))

\* Grid(original = g): the rows are copied, the cells are shared
GridCopy(original) ==
    [cells |-> Eager([row \in Idx |-> original.cells[row]]),
     undefined_cell_count |-> original.undefined_cell_count]

get_cell_value(grid, row, column) == grid.cells[row][column].value

get_cell_status(grid, row, column) == grid.cells[row][column].status

\* a block is taken for valid unless it holds a value three times
is_valid_block_unless_tripled(grid, block) ==
    \A i, j, k \in 1 .. Size :
        (i < j /\ j < k /\ get_cell_value(grid, block[i][1], block[i][2]) # 0)
            => ~(/\ get_cell_value(grid, block[i][1], block[i][2])
                      = get_cell_value(grid, block[j][1], block[j][2])
                 /\ get_cell_value(grid, block[i][1], block[i][2])
                      = get_cell_value(grid, block[k][1], block[k][2]))

is_valid_block(grid, block) ==
    \A i, j \in 1 .. Size :
        (i < j /\ get_cell_value(grid, block[i][1], block[i][2]) # 0)
            => get_cell_value(grid, block[i][1], block[i][2])
                 # get_cell_value(grid, block[j][1], block[j][2])

is_valid(grid) ==
    \A b \in 1 .. (3 * Size) : is_valid_block(grid, validation_blocks[b])

is_complete(grid) == grid.undefined_cell_count = 0

\* a set_cell_value that guards the predefined cells alone
set_cell_value_raises_for_predefined(grid, row, column) ==
    get_cell_status(grid, row, column) = "PREDEFINED"

\* Grid.set_cell_value raises ValueError for a cell that is not UNDEFINED
set_cell_value_raises(grid, row, column) ==
    get_cell_status(grid, row, column) # "UNDEFINED"

\* a set_cell_value that takes the new cell from the predefined cells
GridSetCellValueAsPredefined(grid, row, column, value) ==
    [cells |-> [grid.cells EXCEPT ![row][column] = predefined_cells(value)],
     undefined_cell_count |-> grid.undefined_cell_count - 1]

\* a set_cell_value that leaves the count of the undefined cells as it is
GridSetCellValueKeepingTheCount(grid, row, column, value) ==
    [cells |-> [grid.cells EXCEPT ![row][column] = completed_cells(value)],
     undefined_cell_count |-> grid.undefined_cell_count]

\* Grid.set_cell_value on an UNDEFINED cell
GridSetCellValue(grid, row, column, value) ==
    [cells |-> [grid.cells EXCEPT ![row][column] = completed_cells(value)],
     undefined_cell_count |-> grid.undefined_cell_count - 1]

-----------------------------------------------------------------------------
(* searchsupport.py: candidates, peers, candidate values of one cell *)

\* the values whose bit is set in a 9-bit value mask (bit v - 1 stands for v)
ValueBits(mask) == {v \in Values : (mask \div (2 ^ (v - 1))) % 2 = 1}

\* the numbers of the bits set in a 9-bit cell mask
CellBits(mask) == {i \in Idx : (mask \div (2 ^ i)) % 2 = 1}

FullMask == 511

UnambiguousCandidate(row, column, value) ==
    [row |-> row, column |-> column, value |-> value]

CandidateList(row, column, values) ==
    [row |-> row, column |-> column, values |-> values]

\* None, where the code returns None instead of a candidate or a candidate list
NoCandidate == [row |-> -1, column |-> -1, value |-> 0]

NoCandidateList == [row |-> -1, column |-> -1, values |-> << >>]

peers_in_row(row, column) ==
    SelectSeq([i \in 1 .. Size |-> << row, i - 1 >>], LAMBDA a : a[2] # column)

peers_in_column(row, column) ==
    SelectSeq([i \in 1 .. Size |-> << i - 1, column >>], LAMBDA a : a[1] # row)

peers_in_region(row, column) ==
    SelectSeq(single_region(RegionSize * (row \div RegionSize),
                            RegionSize * (column \div RegionSize)),
              LAMBDA a : a # << row, column >>)

\* OrderedDict(...).keys(): the first occurrence of every address, in order
RECURSIVE ordered_keys(_, _, _)
ordered_keys(addresses, i, keys) ==
    IF i > Len(addresses) THEN keys
    ELSE ordered_keys(addresses, i + 1,
            IF \E k \in 1 .. Len(keys) : keys[k] = addresses[i]
                THEN keys
                ELSE Append(keys, addresses[i]))

create_for_single_cell(row, column) ==
    ordered_keys(peers_in_row(row, column) \o peers_in_column(row, column)
                    \o peers_in_region(row, column), 1, << >>)

\* _CandidateValueExclusionLogic.__cell_peers = _CellPeers.create()
cell_peers ==
    Eager([row \in Idx |-> Eager([column \in Idx |->
                create_for_single_cell(row, column)])])

\* the position of a cell among the given peers, 0 for a cell that is none
position_among(peers, row, column) ==
    IF \E i \in 1 .. Len(peers) : peers[i] = << row, column >>
        THEN CHOOSE i \in 1 .. Len(peers) : peers[i] = << row, column >>
        ELSE 0

\* for every cell, the position of every cell among the peers of that cell
peer_index ==
    Eager([row \in Idx |-> Eager([column \in Idx |->
        Eager([r \in Idx |-> Eager([c \in Idx |->
            position_among(cell_peers[row][column], r, c)])])])])

\* _CandidateValues(): bitmask 0b111111111, all nine values applicable
NewCandidateValues ==
    [bitmask |-> ValueBits(FullMask), applicable_value_count |-> Size]

\* a _CandidateValues object after clear()
clear == [bitmask |-> {}, applicable_value_count |-> 0]

\* exclude_value with the bit of the value left set
exclude_value_keeping_the_bit(candidate_values, value) ==
    [candidate_values |-> candidate_values,
     outcome |-> "UNAMBIGUOUS_CANDIDATE_NOT_FOUND"]

\* exclude_value with the test of the count outside the test of the bit: a
\* single value that is left is reported whether or not a value was excluded
exclude_value_reporting_every_single(candidate_values, value) ==
    IF value \in candidate_values.bitmask
        THEN [candidate_values |->
                 [bitmask |-> candidate_values.bitmask \ {value},
                  applicable_value_count |->
                        candidate_values.applicable_value_count - 1],
              outcome |->
                 IF candidate_values.applicable_value_count - 1 = 1
                     THEN "UNAMBIGUOUS_CANDIDATE_FOUND"
                     ELSE "UNAMBIGUOUS_CANDIDATE_NOT_FOUND"]
        ELSE [candidate_values |-> candidate_values,
              outcome |->
                 IF candidate_values.applicable_value_count = 1
                     THEN "UNAMBIGUOUS_CANDIDATE_FOUND"
                     ELSE "UNAMBIGUOUS_CANDIDATE_NOT_FOUND"]

\* _CandidateValues.exclude_value: the object afterwards and the outcome
exclude_value(candidate_values, value) ==
    IF value \in candidate_values.bitmask
        THEN [candidate_values |->
                 [bitmask |-> candidate_values.bitmask \ {value},
                  applicable_value_count |->
                        candidate_values.applicable_value_count - 1],
              outcome |->
                 IF candidate_values.applicable_value_count - 1 = 1
                     THEN "UNAMBIGUOUS_CANDIDATE_FOUND"
                     ELSE "UNAMBIGUOUS_CANDIDATE_NOT_FOUND"]
        ELSE [candidate_values |-> candidate_values,
              outcome |-> "UNAMBIGUOUS_CANDIDATE_NOT_FOUND"]

get_applicable_values(candidate_values) ==
    SelectSeq([v \in 1 .. Size |-> v], LAMBDA v : v \in candidate_values.bitmask)

\* the value whose bit is the whole mask (0 where the loop finds none)
get_single_remaining_applicable_value(candidate_values) ==
    IF \E v \in Values : candidate_values.bitmask = {v}
        THEN CHOOSE v \in Values : candidate_values.bitmask = {v}
        ELSE 0

CandidateValuesIsApplicable(candidate_values, value) ==
    value \in candidate_values.bitmask

-----------------------------------------------------------------------------
(* searchsupport.py: _CandidateValueExclusionLogic *)

create_candidates_from_scratch ==
    Eager([row \in Idx |-> Eager([column \in Idx |-> NewCandidateValues])])

\* exclude_value on every peer, in the order of the peers
exclude_from_peers(candidates, peers, value) ==
    Eager([i \in 1 .. Len(peers) |->
            exclude_value(candidates[peers[i][1]][peers[i][2]], value)])

\* the positions of the peers whose exclusion found an unambiguous candidate
found_among_peers(excluded) ==
    SelectSeq([i \in 1 .. Len(excluded) |-> i], LAMBDA i :
                excluded[i].outcome = "UNAMBIGUOUS_CANDIDATE_FOUND")

\* the candidates once the loop over the peers is through: the loop visits
\* every peer once and touches the object of that peer alone
candidates_after_exclusion(candidates, index, excluded) ==
    Eager([r \in Idx |-> Eager([c \in Idx |->
        IF index[r][c] = 0
            THEN candidates[r][c]
            ELSE excluded[index[r][c]].candidate_values])])

\* the list the loop over the peers builds
unambiguous_candidates_of_peers(peers, excluded, found) ==
    Eager([i \in 1 .. Len(found) |->
        UnambiguousCandidate(peers[found[i]][1], peers[found[i]][2],
            get_single_remaining_applicable_value(
                excluded[found[i]].candidate_values))])

value_exclusion_outcome(candidates, peers, index, excluded) ==
    [candidates |-> candidates_after_exclusion(candidates, index, excluded),
     result |-> unambiguous_candidates_of_peers(peers, excluded,
                    found_among_peers(excluded))]

\* the loop of apply_and_exclude_cell_value over the peers
exclude_for_peers(candidates, peers, index, value) ==
    value_exclusion_outcome(candidates, peers, index,
        exclude_from_peers(candidates, peers, value))

\* apply_and_exclude_cell_value without the clear() of the cell itself
ValueApplyAndExcludeKeepingTheCell(candidates, row, column, value) ==
    exclude_for_peers(candidates,
        cell_peers[row][column], peer_index[row][column], value)

\* _CandidateValueExclusionLogic.apply_and_exclude_cell_value: the candidates
\* afterwards and the list returned (empty for None)
ValueApplyAndExclude(candidates, row, column, value) ==
    exclude_for_peers([candidates EXCEPT ![row][column] = clear],
        cell_peers[row][column], peer_index[row][column], value)

\* __get_candidates_for_first_undefined_cell: the scan of one row from the
\* given column on, and the scan of the rows from the given row on
RECURSIVE first_undefined_cell_in_row(_, _, _)
first_undefined_cell_in_row(candidates, row, column) ==
    IF column >= Size THEN NoCandidateList
    ELSE IF candidates[row][column].applicable_value_count > 0
        THEN CandidateList(row, column,
                get_applicable_values(candidates[row][column]))
    ELSE first_undefined_cell_in_row(candidates, row, column + 1)

RECURSIVE get_candidates_for_first_undefined_cell(_, _)
first_undefined_cell_from_row(candidates, row, in_row) ==
    IF in_row # NoCandidateList
        THEN in_row
        ELSE get_candidates_for_first_undefined_cell(candidates, row + 1)

get_candidates_for_first_undefined_cell(candidates, row) ==
    IF row >= Size THEN NoCandidateList
    ELSE first_undefined_cell_from_row(candidates, row,
            first_undefined_cell_in_row(candidates, row, 0))

\* the scan of one row that prefers, of two cells with the same count, the
\* later one
RECURSIVE least_candidates_in_row_preferring_the_later(_, _, _, _)
least_candidates_in_row_preferring_the_later(candidates, row, column, candidate_list) ==
    IF column >= Size THEN candidate_list
    ELSE IF candidates[row][column].applicable_value_count = 0
        THEN least_candidates_in_row_preferring_the_later(
                candidates, row, column + 1, candidate_list)
    ELSE IF candidate_list = NoCandidateList
             \/ candidates[row][column].applicable_value_count
                    <= Len(candidate_list.values)
        THEN least_candidates_in_row_preferring_the_later(
                candidates, row, column + 1,
                CandidateList(row, column,
                    get_applicable_values(candidates[row][column])))
    ELSE least_candidates_in_row_preferring_the_later(
            candidates, row, column + 1, candidate_list)

\* __get_candidates_for_undefined_cell_with_least_candidates: the scan of one
\* row from the given column on, and the scan of the rows from the given row on
RECURSIVE least_candidates_in_row(_, _, _, _)
least_candidates_in_row(candidates, row, column, candidate_list) ==
    IF column >= Size THEN candidate_list
    ELSE IF candidates[row][column].applicable_value_count = 0
        THEN least_candidates_in_row(candidates, row, column + 1, candidate_list)
    ELSE IF candidate_list = NoCandidateList
             \/ candidates[row][column].applicable_value_count
                    < Len(candidate_list.values)
        THEN least_candidates_in_row(candidates, row, column + 1,
                CandidateList(row, column,
                    get_applicable_values(candidates[row][column])))
    ELSE least_candidates_in_row(candidates, row, column + 1, candidate_list)

RECURSIVE get_candidates_for_undefined_cell_with_least_candidates(_, _, _)
least_candidates_from_row(candidates, row, candidate_list) ==
    IF candidate_list = NoCandidateList
        THEN get_candidates_for_undefined_cell_with_least_candidates(
                candidates, row + 1, NoCandidateList)
        ELSE get_candidates_for_undefined_cell_with_least_candidates(
                candidates, row + 1, candidate_list)

get_candidates_for_undefined_cell_with_least_candidates(candidates, row, candidate_list) ==
    IF row >= Size THEN candidate_list
    ELSE least_candidates_from_row(candidates, row,
            least_candidates_in_row(candidates, row, 0, candidate_list))

ValueGetUndefinedCellCandidates(candidates, mode) ==
    IF mode = "FIRST_UNDEFINED_CELL"
        THEN get_candidates_for_first_undefined_cell(candidates, 0)
        ELSE get_candidates_for_undefined_cell_with_least_candidates(
                candidates, 0, NoCandidateList)

ValueIsApplicable(candidates, unambiguous_candidate) ==
    CandidateValuesIsApplicable(
        candidates[unambiguous_candidate.row][unambiguous_candidate.column],
        unambiguous_candidate.value)

ValueGetApplicableValueCount(candidates, row, column) ==
    candidates[row][column].applicable_value_count

-----------------------------------------------------------------------------
(* searchsupport.py: _RegionCandidateCells, _RegionGrid,                     *)
(* _CandidateCellExclusionLogic                                              *)

\* the masks of the rows with those of the rows 0 and 2 exchanged
row_peers_upside_down == Eager([r \in 0 .. 2 |->
    CASE r = 0 -> CellBits(63) [] r = 1 -> CellBits(455) [] r = 2 -> CellBits(504)])

\* _RegionCandidateCells.__row_peers[row_within_region]: 0b111111000,
\* 0b111000111, 0b000111111
row_peers == Eager([r \in 0 .. 2 |->
    CASE r = 0 -> CellBits(504) [] r = 1 -> CellBits(455) [] r = 2 -> CellBits(63)])

\* the masks of the column peers with the columns taken right to left
column_peers_right_to_left == Eager([c \in 0 .. 2 |->
    CASE c = 0 -> CellBits(219) [] c = 1 -> CellBits(365) [] c = 2 -> CellBits(438)])

\* _RegionCandidateCells.__column_peers[column_within_region]: 0b110110110,
\* 0b101101101, 0b011011011
column_peers == Eager([c \in 0 .. 2 |->
    CASE c = 0 -> CellBits(438) [] c = 1 -> CellBits(365) [] c = 2 -> CellBits(219)])

NewRegionCandidateCells(topmost_row, leftmost_column, value) ==
    [topmost_row |-> topmost_row, leftmost_column |-> leftmost_column,
     value |-> value, bitmask |-> CellBits(FullMask),
     applicable_cell_count |-> Size]

\* __get_cell_coordinates_within_this_region, its two components
row_within_this_region(region, row) ==
    IF RegionSize * (row \div RegionSize) = region.topmost_row
        THEN row - region.topmost_row ELSE -1

column_within_this_region(region, column) ==
    IF RegionSize * (column \div RegionSize) = region.leftmost_column
        THEN column - region.leftmost_column ELSE -1

get_cell_coordinates_within_this_region(region, row, column) ==
    << row_within_this_region(region, row),
       column_within_this_region(region, column) >>

\* an update that reports a count of 1 whatever the count was before
update_to_count_ignoring_the_old_count(region, bitmask, new_count) ==
    [region |-> [region EXCEPT !.bitmask = bitmask,
                               !.applicable_cell_count = new_count],
     outcome |-> IF new_count = 1
                    THEN "UNAMBIGUOUS_CANDIDATE_FOUND"
                    ELSE "UNAMBIGUOUS_CANDIDATE_NOT_FOUND"]

\* __update_applicable_value_count with the count the loop over the bits of
\* the mask yields
update_to_count(region, bitmask, new_count) ==
    [region |-> [region EXCEPT !.bitmask = bitmask,
                               !.applicable_cell_count = new_count],
     outcome |-> IF new_count = 1 /\ region.applicable_cell_count > new_count
                    THEN "UNAMBIGUOUS_CANDIDATE_FOUND"
                    ELSE "UNAMBIGUOUS_CANDIDATE_NOT_FOUND"]

\* the region with the given mask, its count recomputed, and the outcome
update_applicable_value_count(region, bitmask) ==
    update_to_count(region, bitmask, Cardinality(bitmask))

\* the four cases of apply_and_exclude_cell_value, for the coordinates of the
\* cell within the region
apply_at_coordinates(region, value, row_within_region, column_within_region) ==
    IF row_within_region = -1 /\ column_within_region = -1
        THEN [region |-> region, outcome |-> "UNAMBIGUOUS_CANDIDATE_NOT_FOUND"]
    ELSE IF row_within_region \in 0 .. 2 /\ column_within_region \notin 0 .. 2
        THEN IF value # region.value
                THEN [region |-> region,
                      outcome |-> "UNAMBIGUOUS_CANDIDATE_NOT_FOUND"]
                ELSE update_applicable_value_count(region,
                        region.bitmask \cap row_peers[row_within_region])
    ELSE IF column_within_region \in 0 .. 2 /\ row_within_region \notin 0 .. 2
        THEN IF value # region.value
                THEN [region |-> region,
                      outcome |-> "UNAMBIGUOUS_CANDIDATE_NOT_FOUND"]
                ELSE update_applicable_value_count(region,
                        region.bitmask \cap column_peers[column_within_region])
    ELSE IF region.value = value
        THEN [region |-> [region EXCEPT !.bitmask = {},
                                        !.applicable_cell_count = 0],
              outcome |-> "UNAMBIGUOUS_CANDIDATE_NOT_FOUND"]
    ELSE update_applicable_value_count(region,
            region.bitmask \cap
                (CellBits(FullMask)
                    \ {RegionSize * row_within_region + column_within_region}))

\* _RegionCandidateCells.apply_and_exclude_cell_value: the object afterwards
\* and the outcome
RegionApplyAndExclude(region, row, column, value) ==
    apply_at_coordinates(region, value,
        row_within_this_region(region, row),
        column_within_this_region(region, column))

\* the lowest bit set in the mask
lowest_bit(bitmask) ==
    CHOOSE i \in bitmask : \A j \in bitmask : i <= j

\* the candidate for the cell of the bit i of the region
candidate_for_bit(region, i) ==
    UnambiguousCandidate(region.topmost_row + (i \div RegionSize),
                         region.leftmost_column + (i % RegionSize),
                         region.value)

get_single_remaining_applicable_cell(region) ==
    candidate_for_bit(region, lowest_bit(region.bitmask))

\* _RegionGrid(value): the regions row by row
NewRegionGrid(value) ==
    [k \in 1 .. Size |->
        NewRegionCandidateCells(RegionSize * ((k - 1) \div RegionSize),
                                RegionSize * ((k - 1) % RegionSize), value)]

\* the regions whose exclusion found an unambiguous candidate
found_among_regions(applied) ==
    SelectSeq([k \in 1 .. Size |-> k], LAMBDA k :
                applied[k].outcome = "UNAMBIGUOUS_CANDIDATE_FOUND")

single_remaining_cells(applied, found) ==
    Eager([i \in 1 .. Len(found) |->
            get_single_remaining_applicable_cell(applied[found[i]].region)])

region_grid_outcome(applied) ==
    [regions |-> Eager([k \in 1 .. Size |-> applied[k].region]),
     result |-> single_remaining_cells(applied, found_among_regions(applied))]

\* _RegionGrid.apply_and_exclude_cell_value: every region of the grid is
\* applied once; the result lists, in the order of the regions, the cells of
\* the regions whose exclusion found a candidate (empty for None)
RegionGridApplyAndExclude(regions, row, column, value) ==
    region_grid_outcome(
        Eager([k \in 1 .. Size |->
                RegionApplyAndExclude(regions[k], row, column, value)]))

\* _CandidateCellExclusionLogic(): the region grids of the values 1 to 9
create_region_grids_from_scratch ==
    Eager([w \in 1 .. Size |-> Eager(NewRegionGrid(w))])

\* _CandidateCellExclusionLogic.apply_and_exclude_cell_value: the loop over
\* the region grids, from the grid of the value w on
RECURSIVE CellApplyAndExclude(_, _, _, _, _, _)
cell_exclusion_after(region_grids, w, row, column, value, result, partial) ==
    IF Len(partial.result) > 0
        THEN CellApplyAndExclude([region_grids EXCEPT ![w] = partial.regions],
                w + 1, row, column, value, result \o partial.result)
        ELSE CellApplyAndExclude([region_grids EXCEPT ![w] = partial.regions],
                w + 1, row, column, value, result)

CellApplyAndExclude(region_grids, w, row, column, value, result) ==
    IF w > Size THEN [region_grids |-> region_grids, result |-> result]
    ELSE cell_exclusion_after(region_grids, w, row, column, value, result,
            RegionGridApplyAndExclude(region_grids[w], row, column, value))

-----------------------------------------------------------------------------
(* searchsupport.py: _ExclusionLogic *)

NewExclusionLogic ==
    [candidate_value_exclusion |-> create_candidates_from_scratch,
     candidate_cell_exclusion |-> create_region_grids_from_scratch]

\* the two halves after the exclusion, and the list of the value exclusion
\* followed by the list of the cell exclusion (empty for None)
exclusion_outcome(by_value, by_cell) ==
    [exclusion_logic |->
        [candidate_value_exclusion |-> by_value.candidates,
         candidate_cell_exclusion |-> by_cell.region_grids],
     result |-> by_value.result \o by_cell.result]

\* _ExclusionLogic.apply_and_exclude_cell_value
apply_and_exclude_cell_value(exclusion_logic, row, column, value) ==
    exclusion_outcome(
        ValueApplyAndExclude(exclusion_logic.candidate_value_exclusion,
                             row, column, value),
        CellApplyAndExclude(exclusion_logic.candidate_cell_exclusion, 1,
                            row, column, value, << >>))

is_applicable(exclusion_logic, unambiguous_candidate) ==
    ValueIsApplicable(exclusion_logic.candidate_value_exclusion,
                      unambiguous_candidate)

get_applicable_value_count(exclusion_logic, row, column) ==
    ValueGetApplicableValueCount(exclusion_logic.candidate_value_exclusion,
                                 row, column)

ExclusionLogicCopy(exclusion_logic) ==
    [candidate_value_exclusion |->
        Eager([row \in Idx |-> exclusion_logic.candidate_value_exclusion[row]]),
     candidate_cell_exclusion |->
        Eager([w \in 1 .. Size |-> exclusion_logic.candidate_cell_exclusion[w]])]

-----------------------------------------------------------------------------
(* searchsupport.py: SearchSupport *)

\* the search support once a value is applied: the candidates found are
\* appended to the queue
with_exclusion_applied(search_support, grid, applied) ==
    [exclusion_logic |-> applied.exclusion_logic,
     candidate_queue |-> search_support.candidate_queue \o applied.result,
     grid |-> grid]

\* SearchSupport(grid), the loop over all cell addresses: the cells of one
\* row from the given column on, and the rows from the given row on
RECURSIVE init_row_from_scratch(_, _, _)
init_row_from_scratch(search_support, row, column) ==
    IF column >= Size THEN search_support
    ELSE IF get_cell_status(search_support.grid, row, column) = "PREDEFINED"
        THEN init_row_from_scratch(
                with_exclusion_applied(search_support, search_support.grid,
                    apply_and_exclude_cell_value(
                        search_support.exclusion_logic, row, column,
                        get_cell_value(search_support.grid, row, column))),
                row, column + 1)
    ELSE init_row_from_scratch(search_support, row, column + 1)

RECURSIVE init_from_scratch(_, _)
init_from_scratch(search_support, row) ==
    IF row >= Size THEN search_support
    ELSE init_from_scratch(init_row_from_scratch(search_support, row, 0),
                           row + 1)

NewSearchSupport(grid) ==
    init_from_scratch([exclusion_logic |-> NewExclusionLogic,
                       candidate_queue |-> << >>,
                       grid |-> grid], 0)

\* a copy that starts from a new exclusion logic
init_from_other_instance_with_new_logic(original) ==
    [exclusion_logic |-> NewExclusionLogic,
     candidate_queue |-> << >>,
     grid |-> GridCopy(original.grid)]

\* SearchSupport(original = s), which is also SearchSupport.copy
init_from_other_instance(original) ==
    [exclusion_logic |-> ExclusionLogicCopy(original.exclusion_logic),
     candidate_queue |-> << >>,
     grid |-> GridCopy(original.grid)]

\* the grid property: a clone of the underlying grid
SearchSupportGrid(search_support) == GridCopy(search_support.grid)

has_completed_grid(search_support) == is_complete(search_support.grid)

\* SearchSupport.set_cell_value on a cell Grid.set_cell_value accepts
set_cell_value(search_support, row, column, value) ==
    with_exclusion_applied(search_support,
        GridSetCellValue(search_support.grid, row, column, value),
        apply_and_exclude_cell_value(search_support.exclusion_logic,
                                     row, column, value))

\* has_empty_cells_without_applicable_candidates without the test of the
\* cell status
has_cells_without_applicable_candidates(search_support) ==
    \E i \in 1 .. (Size * Size) :
        get_applicable_value_count(search_support.exclusion_logic,
            cell_addresses[i][1], cell_addresses[i][2]) = 0

has_empty_cells_without_applicable_candidates(search_support) ==
    \E i \in 1 .. (Size * Size) :
        /\ get_cell_status(search_support.grid,
                cell_addresses[i][1], cell_addresses[i][2]) = "UNDEFINED"
        /\ get_applicable_value_count(search_support.exclusion_logic,
                cell_addresses[i][1], cell_addresses[i][2]) = 0

\* SearchSupport.get_unambiguous_candidate: the queue that is left and the
\* candidate returned (NoCandidate for None)
\* a get_unambiguous_candidate that returns the candidate at the head of
\* the queue without asking whether it is still applicable
pop_without_asking(exclusion_logic, candidate_queue) ==
    IF Len(candidate_queue) = 0
        THEN [candidate_queue |-> candidate_queue, candidate |-> NoCandidate]
        ELSE [candidate_queue |-> Tail(candidate_queue),
              candidate |-> Head(candidate_queue)]

RECURSIVE pop_until_applicable(_, _)
pop_until_applicable(exclusion_logic, candidate_queue) ==
    IF Len(candidate_queue) = 0
        THEN [candidate_queue |-> candidate_queue, candidate |-> NoCandidate]
    ELSE IF is_applicable(exclusion_logic, Head(candidate_queue))
        THEN [candidate_queue |-> Tail(candidate_queue),
              candidate |-> Head(candidate_queue)]
    ELSE pop_until_applicable(exclusion_logic, Tail(candidate_queue))

with_queue_popped(search_support, popped) ==
    [search_support |->
        [search_support EXCEPT !.candidate_queue = popped.candidate_queue],
     candidate |-> popped.candidate]

\* get_unambiguous_candidate that looks at the head of the queue alone
get_unambiguous_candidate_from_head(search_support) ==
    with_queue_popped(search_support,
        IF Len(search_support.candidate_queue) = 0
            THEN [candidate_queue |-> << >>, candidate |-> NoCandidate]
        ELSE IF is_applicable(search_support.exclusion_logic,
                              Head(search_support.candidate_queue))
            THEN [candidate_queue |-> Tail(search_support.candidate_queue),
                  candidate |-> Head(search_support.candidate_queue)]
        ELSE [candidate_queue |-> Tail(search_support.candidate_queue),
              candidate |-> NoCandidate])

\* a sequence back to front
back_to_front(s) == [i \in 1 .. Len(s) |-> s[Len(s) + 1 - i]]

\* get_unambiguous_candidate that takes the candidates from the right end
\* of the queue
get_unambiguous_candidate_from_the_back(search_support) ==
    with_queue_popped(search_support,
        [candidate_queue |->
            back_to_front(pop_until_applicable(
                search_support.exclusion_logic,
                back_to_front(search_support.candidate_queue)
            ).candidate_queue),
         candidate |->
            pop_until_applicable(
                search_support.exclusion_logic,
                back_to_front(search_support.candidate_queue)
            ).candidate])

get_unambiguous_candidate(search_support) ==
    with_queue_popped(search_support,
        pop_until_applicable(search_support.exclusion_logic,
                             search_support.candidate_queue))

get_undefined_cell_candidates(search_support, mode) ==
    ValueGetUndefinedCellCandidates(
        search_support.exclusion_logic.candidate_value_exclusion, mode)

\* the assertion of SearchSupport.get_undefined_cell_candidates fails on the
\* given result
candidates_assert_fails(search_support, result) ==
    /\ Len(result.values) > 0
    /\ get_cell_status(search_support.grid, result.row, result.column)
          # "UNDEFINED"

-----------------------------------------------------------------------------
(* The inputs of find_solution *)

\* the solved grid of the integration tests' first puzzle
Solved ==
    << << 6, 3, 1, 9, 2, 4, 7, 8, 5 >>,
       << 9, 7, 2, 8, 6, 5, 4, 1, 3 >>,
       << 5, 4, 8, 7, 3, 1, 9, 2, 6 >>,
       << 3, 8, 5, 2, 4, 7, 6, 9, 1 >>,
       << 4, 1, 6, 3, 8, 9, 5, 7, 2 >>,
       << 7, 2, 9, 1, 5, 6, 3, 4, 8 >>,
       << 8, 9, 4, 5, 1, 3, 2, 6, 7 >>,
       << 1, 5, 7, 6, 9, 2, 8, 3, 4 >>,
       << 2, 6, 3, 4, 7, 8, 1, 5, 9 >> >>

\* The cells in which the input puzzles differ from the solved grid, in
\* groups that are chosen together, each with the values an input may hold
\* there (0: undefined).  The cells form two rectangles that share the cell
\* (2, 8); exchanging the two values of a rectangle yields another valid
\* grid.
Pool ==
    << [cells |-> {<< 0, 0 >>}, values |-> {0, 6, 5}],
       [cells |-> {<< 0, 8 >>, << 2, 0 >>}, values |-> {0, 5}],
       [cells |-> {<< 2, 8 >>}, values |-> {0, 6}],
       [cells |-> {<< 1, 4 >>}, values |-> {0, 6, 3}],
       [cells |-> {<< 1, 8 >>, << 2, 4 >>}, values |-> {0, 3}] >>

RECURSIVE PoolChoices(_)
PoolChoices(i) ==
    IF i = 0 THEN {<< >>}
    ELSE {Append(choice, v) : choice \in PoolChoices(i - 1), v \in Pool[i].values}

\* the number of undefined cells of a choice
RECURSIVE UndefinedCells(_, _)
UndefinedCells(choice, i) ==
    IF i = 0 THEN 0
    ELSE UndefinedCells(choice, i - 1)
            + (IF choice[i] = 0 THEN Cardinality(Pool[i].cells) ELSE 0)

PoolMatrix(choice) ==
    Eager([row \in Idx |-> Eager([column \in Idx |->
        IF \E i \in 1 .. Len(Pool) : << row, column >> \in Pool[i].cells
            THEN choice[CHOOSE i \in 1 .. Len(Pool) :
                            << row, column >> \in Pool[i].cells]
            ELSE Solved[row + 1][column + 1]])])

PuzzleInputs ==
    {PoolMatrix(choice) : choice \in
        {c \in PoolChoices(Len(Pool)) : UndefinedCells(c, Len(Pool)) <= MaxUndefined}}

-----------------------------------------------------------------------------
(* bfs.py *)

NoException == "None"

\* _StepInput with the row and the column exchanged
StepInputTransposed(search_support, row, column, value) ==
    [search_support |-> search_support, row |-> column, column |-> row,
     value |-> value]

StepInput(search_support, row, column, value) ==
    [search_support |-> search_support, row |-> row, column |-> column,
     value |-> value]

\* the rest of __enqueue_steps once the candidate list is queried: the
\* queue afterwards and the exception raised, if any
enqueue_candidate_list(queue, search_support, candidate_list) ==
    IF candidates_assert_fails(search_support, candidate_list)
        THEN [queue |-> queue, raised |-> "AssertionError"]
    ELSE IF candidate_list = NoCandidateList
        THEN [queue |-> queue, raised |-> "TypeError"]
    ELSE IF ~(Len(candidate_list.values) > 0)
        THEN [queue |-> queue, raised |-> "AssertionError"]
    ELSE [queue |-> queue \o
                [i \in 1 .. Len(candidate_list.values) |->
                    StepInput(init_from_other_instance(search_support),
                              candidate_list.row, candidate_list.column,
                              candidate_list.values[i])],
          raised |-> NoException]

\* __enqueue_steps without the test for empty cells without candidates
enqueue_steps_unconditionally(queue, candidate_query_mode, search_support) ==
    enqueue_candidate_list(queue, search_support,
        get_undefined_cell_candidates(search_support, candidate_query_mode))

\* _BreadthFirstSearch.__enqueue_steps
enqueue_steps(queue, candidate_query_mode, search_support) ==
    IF has_empty_cells_without_applicable_candidates(search_support)
        THEN [queue |-> queue, raised |-> NoException]
        ELSE enqueue_candidate_list(queue, search_support,
                get_undefined_cell_candidates(search_support,
                                              candidate_query_mode))

NewBreadthFirstSearch(candidate_query_mode) ==
    [kind |-> "BFS", candidate_query_mode |-> candidate_query_mode,
     queue |-> << >>, last_step_outcome |-> << >>]

\* the algorithm once steps are enqueued, and the exception raised, if any
with_steps_enqueued(self, enqueued) ==
    [algorithm |-> [self EXCEPT !.queue = enqueued.queue],
     raised |-> enqueued.raised]

\* _BreadthFirstSearch.start
BfsStart(self, start_puzzle) ==
    with_steps_enqueued([self EXCEPT !.last_step_outcome = start_puzzle],
        enqueue_steps(self.queue, self.candidate_query_mode,
                      NewSearchSupport(GridCopy(start_puzzle))))

\* a step that returns CONTINUE unless an exception is raised
continue_unless_raised(started) ==
    [algorithm |-> started.algorithm,
     outcome |-> IF started.raised = NoException THEN "CONTINUE" ELSE "None",
     raised |-> started.raised]

\* __process_next_step_from_queue that keeps the grid of the step before
\* unless the grid is completed
bfs_step_after_set_keeping_the_last_grid(stepped, search_support) ==
    IF has_completed_grid(search_support)
        THEN [algorithm |-> [stepped EXCEPT !.last_step_outcome =
                                SearchSupportGrid(search_support)],
              outcome |-> "SOLUTION_FOUND", raised |-> NoException]
        ELSE continue_unless_raised(
                with_steps_enqueued(stepped,
                    enqueue_steps(stepped.queue, stepped.candidate_query_mode,
                                  init_from_other_instance(search_support))))

\* __process_next_step_from_queue after the value is set: stepped is the
\* algorithm with the step taken from the queue
bfs_step_after_set(stepped, search_support) ==
    IF has_completed_grid(search_support)
        THEN [algorithm |-> [stepped EXCEPT !.last_step_outcome =
                                SearchSupportGrid(search_support)],
              outcome |-> "SOLUTION_FOUND", raised |-> NoException]
        ELSE continue_unless_raised(
                with_steps_enqueued(
                    [stepped EXCEPT !.last_step_outcome =
                        SearchSupportGrid(search_support)],
                    enqueue_steps(stepped.queue, stepped.candidate_query_mode,
                                  init_from_other_instance(search_support))))

bfs_process_step_input(stepped, step_input) ==
    IF set_cell_value_raises(step_input.search_support.grid,
                             step_input.row, step_input.column)
        THEN [algorithm |-> stepped, outcome |-> "None",
              raised |-> "ValueError"]
        ELSE bfs_step_after_set(stepped,
                set_cell_value(step_input.search_support, step_input.row,
                               step_input.column, step_input.value))

\* next_step taking the step input from the back of the queue
BfsNextStepFromTheBack(self) ==
    IF Len(self.queue) = 0
        THEN [algorithm |-> self, outcome |-> "PUZZLE_DEAD_END",
              raised |-> NoException]
        ELSE bfs_process_step_input(
                [self EXCEPT !.queue = SubSeq(self.queue, 1,
                                              Len(self.queue) - 1)],
                self.queue[Len(self.queue)])

\* next_step reporting an empty queue as ALGORITHM_DEAD_END
BfsNextStepBlamingTheAlgorithm(self) ==
    IF Len(self.queue) = 0
        THEN [algorithm |-> self, outcome |-> "ALGORITHM_DEAD_END",
              raised |-> NoException]
        ELSE bfs_process_step_input([self EXCEPT !.queue = Tail(self.queue)],
                                    Head(self.queue))

\* _BreadthFirstSearch.next_step
BfsNextStep(self) ==
    IF Len(self.queue) = 0
        THEN [algorithm |-> self, outcome |-> "PUZZLE_DEAD_END",
              raised |-> NoException]
        ELSE bfs_process_step_input([self EXCEPT !.queue = Tail(self.queue)],
                                    Head(self.queue))

-----------------------------------------------------------------------------
(* dfs.py *)

SearchGraphNode(search_support, candidate_list) ==
    [search_support |-> search_support, candidate_list |-> candidate_list,
     current_index |-> 0]

\* the exception _SearchGraphNode.__init__ raises, if any
search_graph_node_raises(candidate_list) ==
    IF candidate_list = NoCandidateList THEN "TypeError"
    ELSE IF ~(Len(candidate_list.values) > 0) THEN "AssertionError"
    ELSE NoException

\* already_exhausted that takes the last value of the list for tried
already_exhausted_one_early(node) ==
    \/ node.candidate_list = NoCandidateList
    \/ node.current_index + 1 >= Len(node.candidate_list.values)

already_exhausted(node) ==
    \/ node.candidate_list = NoCandidateList
    \/ node.current_index >= Len(node.candidate_list.values)

\* next_value returning the position in the candidate list for the value
next_value_by_position(node) ==
    [value |-> node.current_index + 1,
     node |-> [node EXCEPT !.current_index = node.current_index + 1]]

\* next_value leaving the index of the node as it is
next_value_without_advancing(node) ==
    [value |-> node.candidate_list.values[node.current_index + 1],
     node |-> node]

\* _SearchGraphNode.next_value: the value and the node afterwards
next_value(node) ==
    [value |-> node.candidate_list.values[node.current_index + 1],
     node |-> [node EXCEPT !.current_index = node.current_index + 1]]

\* a backtracking that takes one exhausted node at most from the stack
backtrack_by_one_node(entries) ==
    IF Len(entries) > 0 /\ already_exhausted(entries[Len(entries)])
        THEN SubSeq(entries, 1, Len(entries) - 1)
        ELSE entries

\* _SearchGraphNodeStack.backtrack_to_first_unexhausted_node: the stack that
\* is left; its last entry is the node returned, its emptiness stands for None
RECURSIVE backtrack_to_first_unexhausted_node(_)
backtrack_to_first_unexhausted_node(entries) ==
    IF Len(entries) > 0 /\ already_exhausted(entries[Len(entries)])
        THEN backtrack_to_first_unexhausted_node(
                SubSeq(entries, 1, Len(entries) - 1))
        ELSE entries

NewDepthFirstSearch(candidate_query_mode) ==
    [kind |-> "DFS", candidate_query_mode |-> candidate_query_mode,
     stack |-> << >>, last_step_outcome |-> << >>]

\* a node for the candidate list is created and put under the stack
push_node_at_the_bottom(self, search_support, candidate_list) ==
    IF candidates_assert_fails(search_support, candidate_list)
        THEN [algorithm |-> self, raised |-> "AssertionError"]
    ELSE IF search_graph_node_raises(candidate_list) # NoException
        THEN [algorithm |-> self,
              raised |-> search_graph_node_raises(candidate_list)]
    ELSE [algorithm |-> [self EXCEPT !.stack =
                << SearchGraphNode(search_support, candidate_list) >> \o @],
          raised |-> NoException]

\* a node for the candidate list is created and pushed
push_node(self, search_support, candidate_list) ==
    IF candidates_assert_fails(search_support, candidate_list)
        THEN [algorithm |-> self, raised |-> "AssertionError"]
    ELSE IF search_graph_node_raises(candidate_list) # NoException
        THEN [algorithm |-> self,
              raised |-> search_graph_node_raises(candidate_list)]
    ELSE [algorithm |-> [self EXCEPT !.stack = Append(@,
                SearchGraphNode(search_support, candidate_list))],
          raised |-> NoException]

\* the part start and next_step share: a node for the search support is
\* pushed unless some empty cell has no applicable candidate
push_node_unless_dead_end(self, search_support) ==
    IF has_empty_cells_without_applicable_candidates(search_support)
        THEN [algorithm |-> self, raised |-> NoException]
        ELSE push_node(self, search_support,
                get_undefined_cell_candidates(search_support,
                                              self.candidate_query_mode))

\* _DepthFirstSearch.start
DfsStart(self, start_puzzle) ==
    push_node_unless_dead_end(
        [self EXCEPT !.last_step_outcome = start_puzzle],
        NewSearchSupport(GridCopy(start_puzzle)))

\* next_step after the value is set: advanced is the algorithm with the
\* value taken from the node on top of the stack
dfs_step_after_set(advanced, search_support) ==
    IF has_completed_grid(search_support)
        THEN [algorithm |-> [advanced EXCEPT !.last_step_outcome =
                                SearchSupportGrid(search_support)],
              outcome |-> "SOLUTION_FOUND", raised |-> NoException]
        ELSE continue_unless_raised(
                push_node_unless_dead_end(
                    [advanced EXCEPT !.last_step_outcome =
                        SearchSupportGrid(search_support)],
                    search_support))

\* next_step on the node the backtracking returned
dfs_step_on_node(advanced, node, value) ==
    IF set_cell_value_raises(node.search_support.grid,
                             node.candidate_list.row, node.candidate_list.column)
        THEN [algorithm |-> advanced, outcome |-> "None",
              raised |-> "ValueError"]
        ELSE dfs_step_after_set(advanced,
                set_cell_value(init_from_other_instance(node.search_support),
                               node.candidate_list.row,
                               node.candidate_list.column, value))

\* next_step on the stack the backtracking left
dfs_step_on_stack(self, entries) ==
    IF Len(entries) = 0
        THEN [algorithm |-> [self EXCEPT !.stack = entries],
              outcome |-> "PUZZLE_DEAD_END", raised |-> NoException]
        ELSE dfs_step_on_node(
                [self EXCEPT !.stack = [entries EXCEPT ![Len(entries)] =
                                next_value(entries[Len(entries)]).node]],
                entries[Len(entries)],
                next_value(entries[Len(entries)]).value)

\* _DepthFirstSearch.next_step
DfsNextStep(self) ==
    dfs_step_on_stack(self, backtrack_to_first_unexhausted_node(self.stack))

-----------------------------------------------------------------------------
(* ucs.py *)

\* before start, the object has no _search_support attribute
NewUnambiguousCandidateSearch == [kind |-> "UCS", search_support |-> << >>]

\* UnambiguousCandidateSearch.start: the search support works on the very
\* grid it is given
UcsStart(self, start_puzzle) ==
    [algorithm |-> [self EXCEPT !.search_support =
                        NewSearchSupport(start_puzzle)],
     raised |-> NoException]

\* next_step after the value is set
ucs_step_after_set(self, search_support) ==
    [algorithm |-> [self EXCEPT !.search_support = search_support],
     outcome |-> IF has_completed_grid(search_support)
                    THEN "SOLUTION_FOUND" ELSE "CONTINUE",
     raised |-> NoException]

\* next_step that returns ALGORITHM_DEAD_END whenever there is no candidate
ucs_step_on_candidate_blaming_the_algorithm(self, got) ==
    IF got.candidate = NoCandidate
        THEN [algorithm |-> [self EXCEPT !.search_support = got.search_support],
              outcome |-> "ALGORITHM_DEAD_END", raised |-> NoException]
    ELSE IF set_cell_value_raises(got.search_support.grid,
                                  got.candidate.row, got.candidate.column)
        THEN [algorithm |-> [self EXCEPT !.search_support = got.search_support],
              outcome |-> "None", raised |-> "ValueError"]
    ELSE ucs_step_after_set(self,
            set_cell_value(got.search_support, got.candidate.row,
                           got.candidate.column, got.candidate.value))

\* next_step once the candidate queue is asked for a candidate
ucs_step_on_candidate(self, got) ==
    IF got.candidate = NoCandidate
        THEN [algorithm |-> [self EXCEPT !.search_support = got.search_support],
              outcome |->
                IF has_empty_cells_without_applicable_candidates(
                        got.search_support)
                    THEN "PUZZLE_DEAD_END"
                    ELSE "ALGORITHM_DEAD_END",
              raised |-> NoException]
    ELSE IF set_cell_value_raises(got.search_support.grid,
                                  got.candidate.row, got.candidate.column)
        THEN [algorithm |-> [self EXCEPT !.search_support = got.search_support],
              outcome |-> "None", raised |-> "ValueError"]
    ELSE ucs_step_after_set(self,
            set_cell_value(got.search_support, got.candidate.row,
                           got.candidate.column, got.candidate.value))

\* UnambiguousCandidateSearch.next_step
UcsNextStep(self) ==
    ucs_step_on_candidate(self, get_unambiguous_candidate(self.search_support))


-----------------------------------------------------------------------------
(* Objects and references.  A Grid, the lists of its rows, a              *)
(* _CandidateValues, a _RegionCandidateCells, a deque and a SearchSupport *)
(* are objects on a heap; a field that refers to an object holds its      *)
(* address.  The tuples of the exclusion logic, and the _ExclusionLogic,  *)
(* _CandidateValueExclusionLogic, _CandidateCellExclusionLogic and        *)
(* _RegionGrid objects, are never changed once they are built (no method  *)
(* assigns their fields), so they are kept in the SearchSupport object as *)
(* tables of the addresses of the objects they refer to.  A method that   *)
(* changes objects in place reads the objects it reaches through its      *)
(* references, computes as the operators above do, and writes the result  *)
(* back through the same references: two objects that share an object see *)
(* each other's changes.                                                  *)

\* the addresses of the objects that belong to the object of a name
row_list_address(name, row) == << name, row >>

candidate_values_address(name, row, column) == << name, row, column >>

region_cells_address(name, w, k) == << name, w, k >>

\* the Grid at an address, with the lists of its rows read through the
\* references of _cells
deref_grid(h, g) ==
    [cells |-> Eager([row \in Idx |-> h.lists[h.grids[g].cells[row]]]),
     undefined_cell_count |-> h.grids[g].undefined_cell_count]

\* the lists of the rows of the Grid at an address and its counter, set to
\* those of the given value (the address of a list names its row)
write_grid(h, g, grid) ==
    [h EXCEPT
        !.lists = [a \in {h.grids[g].cells[row] : row \in Idx} |->
                      grid.cells[a[2]]] @@ @,
        !.grids = [@ EXCEPT ![g].undefined_cell_count =
                                grid.undefined_cell_count]]

\* Grid(cell_values): new lists for the rows, and the new Grid object
HeapGrid(h, name, created) ==
    [h EXCEPT
        !.lists = [a \in {row_list_address(name, row) : row \in Idx} |->
                      created.cells[a[2]]] @@ @,
        !.grids = (name :> [cells |-> Eager([row \in Idx |->
                                        row_list_address(name, row)]),
                            undefined_cell_count |->
                                created.undefined_cell_count]) @@ @]

\* a copy constructor that takes over the lists of the rows of the original
HeapGridCopySharingTheRows(h, name, original) ==
    [h EXCEPT
        !.grids = (name :> [cells |-> h.grids[original].cells,
                            undefined_cell_count |->
                                h.grids[original].undefined_cell_count]) @@ @]

\* Grid(original = g), which is Grid.copy: each row list is copied
\* (original._cells[row].copy()), the counter is taken over
HeapGridCopy(h, name, original) ==
    HeapGrid(h, name, GridCopy(deref_grid(h, original)))

\* the tables of the addresses of the _CandidateValues and the
\* _RegionCandidateCells objects of the exclusion logic of a name
exclusion_logic_addresses(name) ==
    [candidate_value_exclusion |->
        Eager([row \in Idx |-> Eager([column \in Idx |->
            candidate_values_address(name, row, column)])]),
     candidate_cell_exclusion |->
        Eager([w \in 1 .. Size |-> Eager([k \in 1 .. Size |->
            region_cells_address(name, w, k)])])]

\* the exclusion logic behind a table of addresses, read through them
deref_exclusion_logic(h, addresses) ==
    [candidate_value_exclusion |->
        Eager([row \in Idx |-> Eager([column \in Idx |->
            h.candidate_values[
                addresses.candidate_value_exclusion[row][column]]])]),
     candidate_cell_exclusion |->
        Eager([w \in 1 .. Size |-> Eager([k \in 1 .. Size |->
            h.region_cells[addresses.candidate_cell_exclusion[w][k]]])])]

\* the SearchSupport at an address, with all it refers to
deref_support(h, s) ==
    [exclusion_logic |-> deref_exclusion_logic(h, h.supports[s].exclusion_logic),
     candidate_queue |-> h.deques[h.supports[s].candidate_queue],
     grid |-> deref_grid(h, h.supports[s].grid)]

\* the objects a table of addresses refers to, set to those of the given
\* exclusion logic (the address of an object names its place in the table)
write_exclusion_logic(h, addresses, exclusion_logic) ==
    [h EXCEPT
        !.candidate_values =
            [a \in {addresses.candidate_value_exclusion[row][column] :
                        row \in Idx, column \in Idx} |->
                exclusion_logic.candidate_value_exclusion[a[2]][a[3]]] @@ @,
        !.region_cells =
            [a \in {addresses.candidate_cell_exclusion[w][k] :
                        w \in 1 .. Size, k \in 1 .. Size} |->
                exclusion_logic.candidate_cell_exclusion[a[2]][a[3]]] @@ @]

\* what a method of the SearchSupport at an address has changed in place:
\* the grid, the objects of the exclusion logic and the queue
write_support(h, s, search_support) ==
    [write_exclusion_logic(
        write_grid(h, h.supports[s].grid, search_support.grid),
        h.supports[s].exclusion_logic, search_support.exclusion_logic)
     EXCEPT !.deques = (h.supports[s].candidate_queue :>
                            search_support.candidate_queue) @@ @]

\* a new SearchSupport object with a new deque and the given references to
\* the grid and to the objects of the exclusion logic
new_support_object(h, name, g, addresses) ==
    [h EXCEPT
        !.deques = (name :> << >>) @@ @,
        !.supports = (name :> [exclusion_logic |-> addresses,
                               candidate_queue |-> name,
                               grid |-> g]) @@ @]

\* SearchSupport(grid = g), __init_from_scratch: a new exclusion logic and
\* a new deque, the grid is the very grid given; then the predefined cells
\* are applied
HeapSearchSupport(h, name, g) ==
    write_support(
        new_support_object(
            write_exclusion_logic(h, exclusion_logic_addresses(name),
                                  NewExclusionLogic),
            name, g, exclusion_logic_addresses(name)),
        name, NewSearchSupport(deref_grid(h, g)))

\* a copy that takes over the exclusion logic of the original
HeapSearchSupportCopySharingTheLogic(h, name, original) ==
    new_support_object(
        HeapGridCopy(h, name, h.supports[original].grid),
        name, name, h.supports[original].exclusion_logic)

\* SearchSupport(original = s), __init_from_other_instance, which is
\* SearchSupport.copy: copies of the objects of the exclusion logic, a new
\* deque and a copy of the grid
HeapSearchSupportCopy(h, name, original) ==
    write_support(
        new_support_object(
            HeapGridCopy(h, name, h.supports[original].grid),
            name, name, exclusion_logic_addresses(name)),
        name, init_from_other_instance(deref_support(h, original)))

-----------------------------------------------------------------------------
(* Calls on the objects: a grid G built from a matrix, its copy C, a      *)
(* search support S on the grid G and the copy SC of S, with the calls    *)
(* made on them in any order                                              *)

NoHeap ==
    [lists |-> << >>, grids |-> << >>, candidate_values |-> << >>,
     region_cells |-> << >>, deques |-> << >>, supports |-> << >>]

\* the call made last: the method, the object it is called on, its
\* arguments and the exception it raised
Call(op, target, row, column, value, exception) ==
    [op |-> op, target |-> target, row |-> row, column |-> column,
     value |-> value, raised |-> exception]

NoCall == Call("None", "None", -1, -1, 0, NoException)

\* the matrices the grid G is built from: the solved grid with the cells
\* (0, 0) and (1, 4) undefined, and with the cells (0, 0), (0, 8), (2, 0)
\* and (2, 8) undefined
ObjectInputs ==
    {PoolMatrix(<< 0, 5, 6, 0, 3 >>), PoolMatrix(<< 0, 0, 0, 6, 3 >>)}

\* the arguments of the calls of set_cell_value: in each matrix the cell
\* (0, 0) and one more of the cells are undefined and one cell is predefined
SetInputs ==
    {<< 0, 0, 6 >>, << 1, 4, 6 >>, << 2, 8, 5 >>}
-----------------------------------------------------------------------------
(* the interface of the algorithms, and algorithmregistry.py *)

registry_entries ==
    {"Naive-BFS", "Smart-BFS", "Naive-DFS", "Smart-DFS", "UCS"}

\* a name that is not registered
UnknownAlgorithm == "A-Star"

AlgorithmNames == registry_entries \cup {UnknownAlgorithm}

\* SearchAlgorithmRegistry.create_algorithm_instance for a registered name
create_algorithm_instance(name) ==
    CASE name = "Naive-BFS" -> NewBreadthFirstSearch("FIRST_UNDEFINED_CELL")
      [] name = "Smart-BFS" ->
            NewBreadthFirstSearch("UNDEFINED_CELL_WITH_LEAST_CANDIDATES")
      [] name = "Naive-DFS" -> NewDepthFirstSearch("FIRST_UNDEFINED_CELL")
      [] name = "Smart-DFS" ->
            NewDepthFirstSearch("UNDEFINED_CELL_WITH_LEAST_CANDIDATES")
      [] name = "UCS" -> NewUnambiguousCandidateSearch

\* algorithm.start(puzzle)
Start(self, start_puzzle) ==
    CASE self.kind = "BFS" -> BfsStart(self, start_puzzle)
      [] self.kind = "DFS" -> DfsStart(self, start_puzzle)
      [] self.kind = "UCS" -> UcsStart(self, start_puzzle)

\* algorithm.next_step()
NextStep(self) ==
    CASE self.kind = "BFS" -> BfsNextStep(self)
      [] self.kind = "DFS" -> DfsNextStep(self)
      [] self.kind = "UCS" -> UcsNextStep(self)

\* algorithm.last_step_outcome
LastStepOutcome(self) ==
    IF self.kind = "UCS"
        THEN SearchSupportGrid(self.search_support)
        ELSE self.last_step_outcome

-----------------------------------------------------------------------------
(* searchengine.py *)

NoGrid == << >>

NoAlgorithm == [kind |-> "None"]

NoSearchJob ==
    [puzzle |-> NoGrid, last_step_outcome |-> "None", cell_values_tried |-> 0]

NoSummary == [outcome |-> "None"]

\* _SearchJob(puzzle, algorithm, timeout_sec); the algorithm and the timeout
\* are the variables algorithm and timeout_sec
NewSearchJob(job_puzzle) ==
    [puzzle |-> job_puzzle, last_step_outcome |-> "None",
     cell_values_tried |-> 0]

\* an update of the search state that counts every step, whatever it
\* returned
update_search_state_counting_every_step(job, step_outcome) ==
    [job EXCEPT
        !.last_step_outcome = step_outcome,
        !.cell_values_tried = @ + 1]

\* an update of the search state that counts the steps that returned
\* CONTINUE alone
update_search_state_counting_continue_alone(job, step_outcome) ==
    [job EXCEPT
        !.last_step_outcome = step_outcome,
        !.cell_values_tried = IF step_outcome = "CONTINUE" THEN @ + 1 ELSE @]

\* _SearchJob.__update_search_state
update_search_state(job, step_outcome) ==
    [job EXCEPT
        !.last_step_outcome = step_outcome,
        !.cell_values_tried =
            IF step_outcome \in {"CONTINUE", "SOLUTION_FOUND"} THEN @ + 1 ELSE @]

\* The grid of the search job after a call of the algorithm: the search
\* support of UCS works on the job's grid itself, the other algorithms on
\* copies of it.
job_puzzle_after(job, self) ==
    IF self.kind = "UCS"
        THEN [job EXCEPT !.puzzle = self.search_support.grid]
        ELSE job

\* SearchEngine.__convert_to_search_outcome; "ValueError" where it raises
convert_to_search_outcome(step_outcome) ==
    IF step_outcome \in {"SOLUTION_FOUND", "ALGORITHM_DEAD_END", "PUZZLE_DEAD_END"}
        THEN step_outcome
        ELSE "ValueError"

\* a summary whose final grid is read while the step after the last
\* completed one is under way
SearchSummaryDuringTheNextStep(search_outcome) ==
    [original_puzzle |-> puzzle, algorithm |-> algorithm_name,
     outcome |-> search_outcome,
     final_grid |->
        IF search_outcome = "TIMEOUT"
            THEN LastStepOutcome(NextStep(algorithm).algorithm)
            ELSE LastStepOutcome(algorithm),
     cell_values_tried |-> search_job.cell_values_tried]

\* a summary whose original puzzle is the grid the search job was given
SearchSummaryWithTheGridOfTheJob(search_outcome) ==
    [original_puzzle |-> search_job.puzzle, algorithm |-> algorithm_name,
     outcome |-> search_outcome, final_grid |-> LastStepOutcome(algorithm),
     cell_values_tried |-> search_job.cell_values_tried]

\* SearchSummary(...) as find_solution builds it; the duration is left out
SearchSummary(search_outcome) ==
    [original_puzzle |-> puzzle, algorithm |-> algorithm_name,
     outcome |-> search_outcome, final_grid |-> LastStepOutcome(algorithm),
     cell_values_tried |-> search_job.cell_values_tried]

\* the readings the stopwatch can give after a reading of elapsed; all
\* readings above the timeout are alike
LaterReadings == elapsed .. (timeout_sec + 1)

Init ==
    /\ puzzle_cells \in PuzzleInputs
    /\ algorithm_name \in AlgorithmNames
    /\ timeout_sec \in 1 .. MaxTimeout
    /\ pc = "find_solution"
    /\ puzzle = NoGrid
    /\ algorithm = NoAlgorithm
    /\ search_job = NoSearchJob
    /\ elapsed = 0
    /\ raised = NoException
    /\ summary = NoSummary
    /\ heap = NoHeap
    /\ call = NoCall

\* find_solution up to the creation of the search job
FindSolution ==
    /\ pc = "find_solution"
    /\ \E grid \in {create_from_cell_values(puzzle_cells)} :
           /\ puzzle' = grid
           /\ IF ~is_valid(grid) \/ is_complete(grid)
                  THEN /\ raised' = "InvalidPuzzleError"
                       /\ pc' = "error"
                       /\ UNCHANGED << algorithm, search_job >>
              ELSE IF algorithm_name \notin registry_entries
                  THEN /\ raised' = "NoSuchAlgorithmError"
                       /\ pc' = "error"
                       /\ UNCHANGED << algorithm, search_job >>
              ELSE /\ algorithm' = create_algorithm_instance(algorithm_name)
                   /\ search_job' = NewSearchJob(GridCopy(grid))
                   /\ pc' = "execute"
                   /\ UNCHANGED raised
    /\ UNCHANGED << puzzle_cells, algorithm_name, timeout_sec, elapsed, summary,
                    object_vars >>

\* _SearchJob.execute: the stopwatch is started and the algorithm is started
ExecuteStart ==
    /\ pc = "execute"
    /\ \E started \in {Start(algorithm, search_job.puzzle)} :
           /\ algorithm' = started.algorithm
           /\ search_job' = job_puzzle_after(search_job, started.algorithm)
           /\ raised' = started.raised
           /\ pc' = IF started.raised = NoException THEN "first_step" ELSE "error"
    /\ elapsed' \in 0 .. (timeout_sec + 1)
    /\ UNCHANGED << puzzle_cells, algorithm_name, timeout_sec, puzzle, summary,
                    object_vars >>

\* one call of next_step followed by __update_search_state
CallNextStep ==
    \E stepped \in {NextStep(algorithm)} :
        /\ algorithm' = stepped.algorithm
        /\ raised' = stepped.raised
        /\ IF stepped.raised = NoException
               THEN /\ search_job' = update_search_state(
                            job_puzzle_after(search_job, stepped.algorithm),
                            stepped.outcome)
                    /\ pc' = "loop"
               ELSE /\ search_job' = job_puzzle_after(search_job,
                                                      stepped.algorithm)
                    /\ pc' = "error"

\* _SearchJob.execute: the call of next_step in front of the loop
ExecuteFirstStep ==
    /\ pc = "first_step"
    /\ CallNextStep
    /\ elapsed' \in LaterReadings
    /\ UNCHANGED << puzzle_cells, algorithm_name, timeout_sec, puzzle, summary,
                    object_vars >>

\* a pass through the loop that calls next_step without the comparison of
\* the elapsed time with the timeout
ExecuteNextStepUnchecked ==
    /\ pc = "loop"
    /\ search_job.last_step_outcome = "CONTINUE"
    /\ CallNextStep
    /\ elapsed' \in LaterReadings
    /\ UNCHANGED << puzzle_cells, algorithm_name, timeout_sec, puzzle, summary,
                    object_vars >>

\* a loop that goes on until the solution is found: a pass that calls
\* next_step after a dead end as well
ExecuteNextStepUntilSolved ==
    /\ pc = "loop"
    /\ search_job.last_step_outcome # "SOLUTION_FOUND"
    /\ ~(timeout_sec < elapsed)
    /\ CallNextStep
    /\ elapsed' \in LaterReadings
    /\ UNCHANGED << puzzle_cells, algorithm_name, timeout_sec, puzzle, summary,
                    object_vars >>

\* _SearchJob.execute: a pass through the loop that calls next_step
ExecuteNextStep ==
    /\ pc = "loop"
    /\ search_job.last_step_outcome = "CONTINUE"
    /\ ~(timeout_sec < elapsed)
    /\ CallNextStep
    /\ elapsed' \in LaterReadings
    /\ UNCHANGED << puzzle_cells, algorithm_name, timeout_sec, puzzle, summary,
                    object_vars >>

\* the comparison of the elapsed time with the timeout made after the last
\* step as well
ExecuteTimeoutAfterAnyStep ==
    /\ pc = "loop"
    /\ timeout_sec < elapsed
    /\ summary' = SearchSummary("TIMEOUT")
    /\ pc' = "done"
    /\ UNCHANGED << puzzle_cells, algorithm_name, timeout_sec, puzzle,
                    algorithm, search_job, elapsed, raised,
                    object_vars >>

\* _SearchJob.execute: a pass through the loop that raises TimeoutError, which
\* find_solution turns into the outcome TIMEOUT
ExecuteTimeout ==
    /\ pc = "loop"
    /\ search_job.last_step_outcome = "CONTINUE"
    /\ timeout_sec < elapsed
    /\ summary' = SearchSummary("TIMEOUT")
    /\ pc' = "done"
    /\ UNCHANGED << puzzle_cells, algorithm_name, timeout_sec, puzzle,
                    algorithm, search_job, elapsed, raised,
                    object_vars >>

\* execute returns, and find_solution converts the last step outcome, checks
\* the solution and builds the summary
ExecuteReturn ==
    /\ pc = "loop"
    /\ search_job.last_step_outcome # "CONTINUE"
    /\ IF convert_to_search_outcome(search_job.last_step_outcome) = "ValueError"
           THEN /\ raised' = "ValueError"
                /\ pc' = "error"
                /\ UNCHANGED summary
       ELSE IF /\ search_job.last_step_outcome = "SOLUTION_FOUND"
               /\ ~is_valid(LastStepOutcome(algorithm))
           THEN /\ raised' = "AssertionError"
                /\ pc' = "error"
                /\ UNCHANGED summary
       ELSE /\ summary' = SearchSummary(
                    convert_to_search_outcome(search_job.last_step_outcome))
            /\ pc' = "done"
            /\ UNCHANGED raised
    /\ UNCHANGED << puzzle_cells, algorithm_name, timeout_sec, puzzle,
                    algorithm, search_job, elapsed,
                    object_vars >>

Next ==
    \/ FindSolution
    \/ ExecuteStart
    \/ ExecuteFirstStep
    \/ ExecuteNextStep
    \/ ExecuteTimeout
    \/ ExecuteReturn

Spec == Init /\ [][Next]_vars


-----------------------------------------------------------------------------
(* The calls on the objects as steps *)

\* no search runs while the calls on the objects are made
NoSearch ==
    /\ algorithm_name = "None"
    /\ timeout_sec = 0
    /\ pc = "objects"
    /\ puzzle = NoGrid
    /\ algorithm = NoAlgorithm
    /\ search_job = NoSearchJob
    /\ elapsed = 0
    /\ raised = NoException
    /\ summary = NoSummary

\* G = Grid(puzzle_cells)
ObjectInit ==
    /\ puzzle_cells \in ObjectInputs
    /\ NoSearch
    /\ heap = HeapGrid(NoHeap, "G", create_from_cell_values(puzzle_cells))
    /\ call = Call("Grid", "G", -1, -1, 0, NoException)

\* C = G.copy(), in the runs without search supports
GridCopyCall ==
    /\ "C" \notin DOMAIN heap.grids
    /\ "S" \notin DOMAIN heap.supports
    /\ heap' = HeapGridCopy(heap, "C", "G")
    /\ call' = Call("Grid.copy", "G", -1, -1, 0, NoException)
    /\ UNCHANGED engine_vars

\* Grid.set_cell_value on the grid at an address
HeapGridSetCellValue(h, g, row, column, value) ==
    IF set_cell_value_raises(deref_grid(h, g), row, column)
        THEN [heap |-> h, raised |-> "ValueError"]
        ELSE [heap |-> write_grid(h, g,
                    GridSetCellValue(deref_grid(h, g), row, column, value)),
              raised |-> NoException]

\* G.set_cell_value(row, column, value) or C.set_cell_value(row, column,
\* value)
GridSetCellValueCall ==
    /\ \E g \in {"G", "C"} \cap DOMAIN heap.grids : \E input \in SetInputs :
        \E done \in {HeapGridSetCellValue(heap, g, input[1], input[2],
                                          input[3])} :
            /\ heap' = done.heap
            /\ call' = Call("Grid.set_cell_value", g, input[1], input[2],
                            input[3], done.raised)
    /\ UNCHANGED engine_vars

\* S = SearchSupport(grid = G), in the runs without a copy of the grid G
SearchSupportCall ==
    /\ "S" \notin DOMAIN heap.supports
    /\ "C" \notin DOMAIN heap.grids
    /\ heap' = HeapSearchSupport(heap, "S", "G")
    /\ call' = Call("SearchSupport", "G", -1, -1, 0, NoException)
    /\ UNCHANGED engine_vars

\* SC = S.copy()
SearchSupportCopyCall ==
    /\ "S" \in DOMAIN heap.supports
    /\ "SC" \notin DOMAIN heap.supports
    /\ heap' = HeapSearchSupportCopy(heap, "SC", "S")
    /\ call' = Call("SearchSupport.copy", "S", -1, -1, 0, NoException)
    /\ UNCHANGED engine_vars

\* SearchSupport.set_cell_value on the search support at an address: the
\* ValueError of Grid.set_cell_value leaves the method before the
\* exclusion
HeapSetCellValue(h, s, row, column, value) ==
    IF set_cell_value_raises(deref_grid(h, h.supports[s].grid), row, column)
        THEN [heap |-> h, raised |-> "ValueError"]
        ELSE [heap |-> write_support(h, s,
                    set_cell_value(deref_support(h, s), row, column, value)),
              raised |-> NoException]

\* S.set_cell_value(row, column, value) or SC.set_cell_value(row, column,
\* value)
SetCellValueCall ==
    /\ \E s \in DOMAIN heap.supports : \E input \in SetInputs :
        \E done \in {HeapSetCellValue(heap, s, input[1], input[2],
                                      input[3])} :
            /\ heap' = done.heap
            /\ call' = Call("SearchSupport.set_cell_value", s, input[1],
                            input[2], input[3], done.raised)
    /\ UNCHANGED engine_vars

\* S.get_unambiguous_candidate() or SC.get_unambiguous_candidate(); the
\* call records the candidate returned
GetUnambiguousCandidateCall ==
    /\ \E s \in DOMAIN heap.supports :
        \E got \in {get_unambiguous_candidate(deref_support(heap, s))} :
            /\ heap' = write_support(heap, s, got.search_support)
            /\ call' = Call("SearchSupport.get_unambiguous_candidate", s,
                            got.candidate.row, got.candidate.column,
                            got.candidate.value, NoException)
    /\ UNCHANGED engine_vars

ObjectNext ==
    \/ GridCopyCall
    \/ GridSetCellValueCall
    \/ SearchSupportCall
    \/ SearchSupportCopyCall
    \/ SetCellValueCall
    \/ GetUnambiguousCandidateCall

ObjectSpec == ObjectInit /\ [][ObjectNext]_vars

-----------------------------------------------------------------------------
(* The queries of a search support: a search support S built on the grid  *)
(* of a puzzle, with values set and the pending candidates and the        *)
(* candidates of an undefined cell asked for, in any order                *)

\* the solved grid with the cells of the rows 0 to 2 undefined
BandMatrix ==
    Eager([row \in Idx |-> Eager([column \in Idx |->
        IF row < RegionSize THEN 0 ELSE Solved[row + 1][column + 1]])])

\* the solved grid with the cells of the columns 0 to 2 undefined
ColumnBandMatrix ==
    Eager([row \in Idx |-> Eager([column \in Idx |->
        IF column < RegionSize THEN 0 ELSE Solved[row + 1][column + 1]])])

\* the puzzles the search support is built on: the puzzle with three
\* undefined rows, the puzzle with three undefined columns, and a puzzle in
\* which no value is left for the undefined cells (0, 8) and (2, 0), while
\* 6 is left for the cell (1, 4)
QueryInputs ==
    {BandMatrix, ColumnBandMatrix, PoolMatrix(<< 5, 0, 6, 0, 3 >>)}

\* the arguments of the calls of set_cell_value: values the rules allow in
\* their cells, the value 6 for the cell (0, 1), whose column holds a 6,
\* and a value for a cell that is predefined in two of the puzzles
QuerySetInputs ==
    {<< 0, 1, 6 >>, << 0, 4, 6 >>, << 1, 0, 9 >>, << 2, 0, 5 >>,
     << 0, 0, 6 >>, << 3, 0, 3 >>}

CandidateQueryModes ==
    {"FIRST_UNDEFINED_CELL", "UNDEFINED_CELL_WITH_LEAST_CANDIDATES"}

\* G = Grid(puzzle_cells); S = SearchSupport(grid = G)
QueryInit ==
    /\ puzzle_cells \in QueryInputs
    /\ NoSearch
    /\ heap = HeapSearchSupport(
                HeapGrid(NoHeap, "G", create_from_cell_values(puzzle_cells)),
                "S", "G")
    /\ call = Call("SearchSupport", "G", -1, -1, 0, NoException)

\* S.set_cell_value(row, column, value)
QuerySetCellValueCall ==
    /\ \E input \in QuerySetInputs :
        \E done \in {HeapSetCellValue(heap, "S", input[1], input[2],
                                      input[3])} :
            /\ heap' = done.heap
            /\ call' = Call("SearchSupport.set_cell_value", "S", input[1],
                            input[2], input[3], done.raised)
    /\ UNCHANGED engine_vars

\* SearchSupport.get_undefined_cell_candidates: the call of the mode is
\* recorded with the cell of the candidate list returned and the number of
\* its values (no cell and no value for None), or with the AssertionError
\* of the method
undefined_cell_candidates_call(search_support, mode, result) ==
    IF candidates_assert_fails(search_support, result)
        THEN Call(mode, "S", -1, -1, 0, "AssertionError")
        ELSE Call(mode, "S", result.row, result.column, Len(result.values),
                  NoException)

\* S.get_undefined_cell_candidates(mode)
GetUndefinedCellCandidatesCall ==
    /\ \E mode \in CandidateQueryModes :
        call' = undefined_cell_candidates_call(deref_support(heap, "S"), mode,
                    get_undefined_cell_candidates(deref_support(heap, "S"),
                                                  mode))
    /\ UNCHANGED << heap, engine_vars >>

QueryNext ==
    \/ QuerySetCellValueCall
    \/ GetUnambiguousCandidateCall
    \/ GetUndefinedCellCandidatesCall

QuerySpec == QueryInit /\ [][QueryNext]_vars

-----------------------------------------------------------------------------
(* BFS and DFS on the objects.  The entries of the queue of the BFS and   *)
(* of the stack of the DFS hold the addresses of their SearchSupport      *)
(* objects; the objects are numbered as they are created, the Grid of the *)
(* puzzle is the object 0.  The clone the grid property returns for       *)
(* last_step_outcome is referred to by the algorithm alone and is kept by *)
(* its value.                                                             *)

\* the address of the next object created
new_address(h) == Cardinality(DOMAIN h.grids)

\* SearchSupport(puzzle.copy()): the copy of the grid and the search
\* support on it get the same number
HeapSearchSupportOnCopy(h, name, g) ==
    HeapSearchSupport(HeapGridCopy(h, name, g), name, name)

\* the loop of __enqueue_steps with one search support for all the step
\* inputs
RECURSIVE enqueue_values_sharing_the_support(_, _, _, _, _)
enqueue_values_sharing_the_support(h, queue, s, candidate_list, i) ==
    IF i > Len(candidate_list.values)
        THEN [heap |-> h, queue |-> queue, raised |-> NoException]
        ELSE enqueue_values_sharing_the_support(h,
                Append(queue, StepInput(s, candidate_list.row,
                                        candidate_list.column,
                                        candidate_list.values[i])),
                s, candidate_list, i + 1)

\* the loop of __enqueue_steps from the i-th value of the candidate list
\* on: a _StepInput with a copy of the search support for each value
RECURSIVE enqueue_values(_, _, _, _, _)
enqueue_values(h, queue, s, candidate_list, i) ==
    IF i > Len(candidate_list.values)
        THEN [heap |-> h, queue |-> queue, raised |-> NoException]
        ELSE enqueue_values(
                HeapSearchSupportCopy(h, new_address(h), s),
                Append(queue, StepInput(new_address(h), candidate_list.row,
                                        candidate_list.column,
                                        candidate_list.values[i])),
                s, candidate_list, i + 1)

\* the rest of __enqueue_steps once the candidate list is queried
heap_enqueue_candidate_list(h, queue, s, candidate_list) ==
    IF candidates_assert_fails(deref_support(h, s), candidate_list)
        THEN [heap |-> h, queue |-> queue, raised |-> "AssertionError"]
    ELSE IF candidate_list = NoCandidateList
        THEN [heap |-> h, queue |-> queue, raised |-> "TypeError"]
    ELSE IF ~(Len(candidate_list.values) > 0)
        THEN [heap |-> h, queue |-> queue, raised |-> "AssertionError"]
    ELSE enqueue_values(h, queue, s, candidate_list, 1)

\* _BreadthFirstSearch.__enqueue_steps for the search support at an address
HeapEnqueueSteps(h, queue, candidate_query_mode, s) ==
    IF has_empty_cells_without_applicable_candidates(deref_support(h, s))
        THEN [heap |-> h, queue |-> queue, raised |-> NoException]
        ELSE heap_enqueue_candidate_list(h, queue, s,
                get_undefined_cell_candidates(deref_support(h, s),
                                              candidate_query_mode))

\* the algorithm and the heap once steps are enqueued; the step returns
\* CONTINUE unless an exception is raised
heap_with_steps_enqueued(self, enqueued) ==
    [heap |-> enqueued.heap,
     algorithm |-> [self EXCEPT !.queue = enqueued.queue],
     outcome |-> IF enqueued.raised = NoException THEN "CONTINUE" ELSE "None",
     raised |-> enqueued.raised]

\* _BreadthFirstSearch.start for the puzzle at an address
HeapBfsStart(h, self, g) ==
    heap_with_steps_enqueued(
        [self EXCEPT !.last_step_outcome = deref_grid(h, g)],
        HeapEnqueueSteps(HeapSearchSupportOnCopy(h, new_address(h), g),
                         self.queue, self.candidate_query_mode,
                         new_address(h)))

\* __process_next_step_from_queue after set_cell_value on the search
\* support s of the step input: stepped is the algorithm without the step
\* input
heap_bfs_step_after_set(done, stepped, s) ==
    IF done.raised # NoException
        THEN [heap |-> done.heap, algorithm |-> stepped, outcome |-> "None",
              raised |-> done.raised]
    ELSE IF has_completed_grid(deref_support(done.heap, s))
        THEN [heap |-> done.heap,
              algorithm |-> [stepped EXCEPT !.last_step_outcome =
                                SearchSupportGrid(deref_support(done.heap, s))],
              outcome |-> "SOLUTION_FOUND", raised |-> NoException]
    ELSE heap_with_steps_enqueued(
            [stepped EXCEPT !.last_step_outcome =
                SearchSupportGrid(deref_support(done.heap, s))],
            HeapEnqueueSteps(
                HeapSearchSupportCopy(done.heap, new_address(done.heap), s),
                stepped.queue, stepped.candidate_query_mode,
                new_address(done.heap)))

\* _BreadthFirstSearch.next_step
HeapBfsNextStep(h, self) ==
    IF Len(self.queue) = 0
        THEN [heap |-> h, algorithm |-> self, outcome |-> "PUZZLE_DEAD_END",
              raised |-> NoException]
        ELSE heap_bfs_step_after_set(
                HeapSetCellValue(h, Head(self.queue).search_support,
                                 Head(self.queue).row, Head(self.queue).column,
                                 Head(self.queue).value),
                [self EXCEPT !.queue = Tail(self.queue)],
                Head(self.queue).search_support)

\* a node for the candidate list and the search support at an address is
\* created and pushed
heap_push_node(h, self, s, candidate_list, outcome) ==
    IF candidates_assert_fails(deref_support(h, s), candidate_list)
        THEN [heap |-> h, algorithm |-> self, outcome |-> "None",
              raised |-> "AssertionError"]
    ELSE IF search_graph_node_raises(candidate_list) # NoException
        THEN [heap |-> h, algorithm |-> self, outcome |-> "None",
              raised |-> search_graph_node_raises(candidate_list)]
    ELSE [heap |-> h,
          algorithm |-> [self EXCEPT !.stack = Append(@,
                            SearchGraphNode(s, candidate_list))],
          outcome |-> outcome, raised |-> NoException]

\* the part start and next_step of the DFS share
heap_push_node_unless_dead_end(h, self, s, outcome) ==
    IF has_empty_cells_without_applicable_candidates(deref_support(h, s))
        THEN [heap |-> h, algorithm |-> self, outcome |-> outcome,
              raised |-> NoException]
        ELSE heap_push_node(h, self, s,
                get_undefined_cell_candidates(deref_support(h, s),
                                              self.candidate_query_mode),
                outcome)

\* _DepthFirstSearch.start for the puzzle at an address
HeapDfsStart(h, self, g) ==
    heap_push_node_unless_dead_end(
        HeapSearchSupportOnCopy(h, new_address(h), g),
        [self EXCEPT !.last_step_outcome = deref_grid(h, g)],
        new_address(h), "CONTINUE")

\* next_step of the DFS after set_cell_value on the copy s of the search
\* support of the node
heap_dfs_step_after_set(done, advanced, s) ==
    IF done.raised # NoException
        THEN [heap |-> done.heap, algorithm |-> advanced, outcome |-> "None",
              raised |-> done.raised]
    ELSE IF has_completed_grid(deref_support(done.heap, s))
        THEN [heap |-> done.heap,
              algorithm |-> [advanced EXCEPT !.last_step_outcome =
                                SearchSupportGrid(deref_support(done.heap, s))],
              outcome |-> "SOLUTION_FOUND", raised |-> NoException]
    ELSE heap_push_node_unless_dead_end(done.heap,
            [advanced EXCEPT !.last_step_outcome =
                SearchSupportGrid(deref_support(done.heap, s))],
            s, "CONTINUE")

\* next_step of the DFS on the stack the backtracking left: the search
\* support of the node on top is copied and the value is set in the copy
heap_dfs_step_on_stack(h, self, entries) ==
    IF Len(entries) = 0
        THEN [heap |-> h, algorithm |-> [self EXCEPT !.stack = entries],
              outcome |-> "PUZZLE_DEAD_END", raised |-> NoException]
        ELSE heap_dfs_step_after_set(
                HeapSetCellValue(
                    HeapSearchSupportCopy(h, new_address(h),
                        entries[Len(entries)].search_support),
                    new_address(h),
                    entries[Len(entries)].candidate_list.row,
                    entries[Len(entries)].candidate_list.column,
                    next_value(entries[Len(entries)]).value),
                [self EXCEPT !.stack = [entries EXCEPT ![Len(entries)] =
                                next_value(entries[Len(entries)]).node]],
                new_address(h))

\* _DepthFirstSearch.next_step
HeapDfsNextStep(h, self) ==
    heap_dfs_step_on_stack(h, self,
        backtrack_to_first_unexhausted_node(self.stack))

\* the puzzles of the runs on the objects: the solved grid with the cells
\* of one or of both rectangles of the pool undefined, with and without a
\* value that leaves no solution
BranchInputs ==
    {PoolMatrix(<< 0, 0, 0, 6, 3 >>), PoolMatrix(<< 0, 0, 0, 0, 0 >>),
     PoolMatrix(<< 6, 5, 6, 0, 0 >>), PoolMatrix(<< 5, 0, 6, 0, 3 >>),
     PoolMatrix(<< 0, 0, 0, 3, 0 >>), PoolMatrix(<< 5, 0, 0, 0, 0 >>)}

BranchAlgorithmNames ==
    {"Naive-BFS", "Smart-BFS", "Naive-DFS", "Smart-DFS"}

\* find_solution up to the start of the algorithm: puzzle = Grid(...) is
\* the object 0, the algorithm is created
BranchInit ==
    /\ puzzle_cells \in BranchInputs
    /\ algorithm_name \in BranchAlgorithmNames
    /\ timeout_sec = 0
    /\ pc = "start"
    /\ puzzle = NoGrid
    /\ algorithm = create_algorithm_instance(algorithm_name)
    /\ search_job = NoSearchJob
    /\ elapsed = 0
    /\ raised = NoException
    /\ summary = NoSummary
    /\ heap = HeapGrid(NoHeap, 0, create_from_cell_values(puzzle_cells))
    /\ call = Call("Grid", 0, -1, -1, 0, NoException)

\* the step leaves the heap and the algorithm as computed; the search goes
\* on after CONTINUE
branch_step(op, stepped) ==
    /\ heap' = stepped.heap
    /\ algorithm' = stepped.algorithm
    /\ raised' = stepped.raised
    /\ search_job' = [search_job EXCEPT !.last_step_outcome = stepped.outcome]
    /\ pc' = IF stepped.outcome = "CONTINUE" THEN "steps" ELSE "done"
    /\ call' = Call(op, algorithm_name, -1, -1, 0, stepped.raised)
    /\ UNCHANGED << puzzle_cells, algorithm_name, timeout_sec, puzzle,
                    elapsed, summary >>

\* algorithm.start(puzzle)
BranchStart ==
    /\ pc = "start"
    /\ \E stepped \in {IF algorithm.kind = "BFS"
                          THEN HeapBfsStart(heap, algorithm, 0)
                          ELSE HeapDfsStart(heap, algorithm, 0)} :
            branch_step("start", stepped)

\* algorithm.next_step(), as long as the steps return CONTINUE; the timeout,
\* which ends a run earlier and changes no object, is left out
BranchNextStep ==
    /\ pc = "steps"
    /\ \E stepped \in {IF algorithm.kind = "BFS"
                          THEN HeapBfsNextStep(heap, algorithm)
                          ELSE HeapDfsNextStep(heap, algorithm)} :
            branch_step("next_step", stepped)

BranchNext == BranchStart \/ BranchNextStep

BranchSpec == BranchInit /\ [][BranchNext]_vars

-----------------------------------------------------------------------------
(* The calls on a _SearchGraphNodeStack as steps: nodes are pushed, and   *)
(* the node the backtracking returns is asked for its next value, as      *)
(* next_step of the DFS does.  The stack is the stack of a DFS object     *)
(* that is not started; the nodes refer to no search support.             *)

\* the largest number of nodes on the stack
MaxNodes == 3

\* the largest number of values of the candidate list of a node
MaxValues == 3

\* the nodes pushed: new nodes for the cell (0, 0) with one value or more
NewNodes ==
    {SearchGraphNode(<< >>, CandidateList(0, 0, [i \in 1 .. n |-> i])) :
        n \in 1 .. MaxValues}

StackInit ==
    /\ puzzle_cells = << >>
    /\ algorithm_name = "None"
    /\ timeout_sec = 0
    /\ pc = "stack"
    /\ puzzle = NoGrid
    /\ algorithm = NewDepthFirstSearch("FIRST_UNDEFINED_CELL")
    /\ search_job = NoSearchJob
    /\ elapsed = 0
    /\ raised = NoException
    /\ summary = NoSummary
    /\ heap = NoHeap
    /\ call = NoCall

\* stack.push(node)
StackPushCall ==
    /\ Len(algorithm.stack) < MaxNodes
    /\ \E node \in NewNodes :
        algorithm' = [algorithm EXCEPT !.stack = Append(@, node)]
    /\ call' = Call("push", "stack", -1, -1, 0, NoException)
    /\ UNCHANGED << puzzle_cells, algorithm_name, timeout_sec, pc, puzzle,
                    search_job, elapsed, raised, summary, heap >>

\* node = stack.backtrack_to_first_unexhausted_node(); the call records
\* the place on the stack of the node returned (0 for the bottom, -1 for
\* None)
StackBacktrackCall ==
    /\ \E entries \in {backtrack_to_first_unexhausted_node(algorithm.stack)} :
        /\ algorithm' = [algorithm EXCEPT !.stack = entries]
        /\ call' = Call("backtrack_to_first_unexhausted_node", "stack",
                        Len(entries) - 1, -1, 0, NoException)
    /\ UNCHANGED << puzzle_cells, algorithm_name, timeout_sec, pc, puzzle,
                    search_job, elapsed, raised, summary, heap >>

\* node.next_value() for the node the backtracking has just returned; the
\* call records the value
StackNextValueCall ==
    /\ call.op = "backtrack_to_first_unexhausted_node"
    /\ call.row # -1
    /\ \E got \in {next_value(algorithm.stack[Len(algorithm.stack)])} :
        /\ algorithm' = [algorithm EXCEPT
                            !.stack[Len(algorithm.stack)] = got.node]
        /\ call' = Call("next_value", "stack", call.row, -1, got.value,
                        NoException)
    /\ UNCHANGED << puzzle_cells, algorithm_name, timeout_sec, pc, puzzle,
                    search_job, elapsed, raised, summary, heap >>

StackNext == StackPushCall \/ StackBacktrackCall \/ StackNextValueCall

StackSpec == StackInit /\ [][StackNext]_vars

-----------------------------------------------------------------------------
(* The search without a timeout: the driver of find_solution with clock   *)
(* readings that never exceed the timeout, so that the loop of execute    *)
(* ends only when next_step returns an outcome other than CONTINUE.  The  *)
(* interpreter runs execute without a pause: a call of next_step that is  *)
(* due is made, hence the weak fairness of the call.                      *)

\* the largest number of cell values counted before the loop is given up
MaxSteps == 64

\* start returns before the timeout
StartInTime ==
    /\ ExecuteStart
    /\ elapsed' <= timeout_sec

\* the call of next_step in front of the loop returns before the timeout
FirstStepInTime ==
    /\ ExecuteFirstStep
    /\ elapsed' <= timeout_sec

\* a pass through the loop that returns before the timeout
NextStepInTime ==
    /\ search_job.cell_values_tried < MaxSteps
    /\ ExecuteNextStep
    /\ elapsed' <= timeout_sec

UntimedNext ==
    \/ FindSolution
    \/ StartInTime
    \/ FirstStepInTime
    \/ NextStepInTime
    \/ ExecuteReturn

\* a call of next_step is due
CallIsDue ==
    \/ pc = "first_step"
    \/ /\ pc = "loop"
       /\ search_job.last_step_outcome = "CONTINUE"
       /\ ~(timeout_sec < elapsed)
       /\ search_job.cell_values_tried < MaxSteps

\* the call of next_step that is due is made: under UntimedNext the steps
\* of FirstStepInTime and NextStepInTime, and no other
NextStepCall ==
    /\ CallIsDue
    /\ pc' # pc \/ search_job' # search_job

\* the weak fairness of NextStepCall, WF_vars(NextStepCall), written with
\* the state predicate that ENABLED << NextStepCall >>_vars is
CallsAreMade == []<>(~CallIsDue) \/ []<><< NextStepCall >>_vars

UntimedSpec == Init /\ [][UntimedNext]_vars /\ CallsAreMade

-----------------------------------------------------------------------------
(* The algorithm in the hands of a caller that goes on calling next_step  *)
(* whatever it returned: find_solution up to the first next_step, then    *)
(* further calls, of which those that follow an outcome other than        *)
(* CONTINUE are counted in the field value of the variable call.          *)

\* the largest number of calls of next_step made after the first outcome
\* other than CONTINUE
MaxFurtherCalls == 2

\* the number of calls counted after the call about to be made
further_calls_counted ==
    IF search_job.last_step_outcome = "CONTINUE" /\ call.value = 0
        THEN 0
        ELSE call.value + 1

\* next_step is called again, whatever the last call returned
NextStepAgain ==
    /\ pc = "loop"
    /\ call.value < MaxFurtherCalls
    /\ CallNextStep
    /\ call' = Call("next_step", algorithm_name, -1, -1,
                    further_calls_counted, NoException)
    /\ UNCHANGED << puzzle_cells, algorithm_name, timeout_sec, puzzle, summary,
                    elapsed, heap >>

SteppingNext ==
    \/ FindSolution
    \/ StartInTime
    \/ FirstStepInTime
    \/ NextStepAgain

SteppingSpec == Init /\ [][SteppingNext]_vars
-----------------------------------------------------------------------------
(* The rules of the game, stated on the cells of a grid alone *)

AllCells == Idx \X Idx

\* two different cells of one row, one column or one region
in_conflict(a, b) ==
    /\ a # b
    /\ \/ a[1] = b[1]
       \/ a[2] = b[2]
       \/ /\ a[1] \div RegionSize = b[1] \div RegionSize
          /\ a[2] \div RegionSize = b[2] \div RegionSize

Conflicting == [a \in AllCells |-> {b \in AllCells : in_conflict(a, b)}]

\* of the cells in conflict with a cell, those that follow it in the order
\* of the rows and, within a row, of the columns
ConflictingAfter ==
    [a \in AllCells |->
        {b \in Conflicting[a] :
            b[1] > a[1] \/ (b[1] = a[1] /\ b[2] > a[2])}]

value_at(grid, a) == grid.cells[a[1]][a[2]].value

\* no cell in conflict with the cell a, and after it, holds the value v
value_not_repeated(grid, a, v) ==
    v # 0 => \A b \in ConflictingAfter[a] : value_at(grid, b) # v

\* no value occurs twice in a row, a column or a region
obeys_rules(grid) ==
    \A a \in AllCells : value_not_repeated(grid, a, value_at(grid, a))

no_undefined_cell(grid) ==
    \A a \in AllCells :
        /\ grid.cells[a[1]][a[2]].status # "UNDEFINED"
        /\ value_at(grid, a) \in Values

\* the values no cell in conflict with the cell a holds
values_free_for(grid, a) ==
    {v \in Values : \A b \in Conflicting[a] : value_at(grid, b) # v}

undefined_cells_of(grid) ==
    {a \in AllCells : grid.cells[a[1]][a[2]].status = "UNDEFINED"}

BruteForceNames == {"Naive-BFS", "Smart-BFS", "Naive-DFS", "Smart-DFS"}

-----------------------------------------------------------------------------
(* The claims *)

\* C1: whenever next_step of any of the five algorithms has returned
\* SOLUTION_FOUND, the grid last_step_outcome returns has no undefined cell
\* and no value twice in a row, a column or a region, and the assertion of
\* find_solution on the final grid does not fail.
SolutionFoundIsCompleteAndValid ==
    /\ search_job.last_step_outcome = "SOLUTION_FOUND" =>
          /\ no_undefined_cell(LastStepOutcome(algorithm))
          /\ obeys_rules(LastStepOutcome(algorithm))
    /\ ~(pc = "error" /\ raised = "AssertionError")

\* a search that has guessed, has backtracked and has found a solution
SolutionFoundAfterGuesses ==
    /\ pc = "done"
    /\ algorithm_name = "Naive-DFS"
    /\ summary.outcome = "SOLUTION_FOUND"
    /\ summary.cell_values_tried >
          Cardinality(undefined_cells_of(summary.original_puzzle))

\* C2: whatever the outcome (SOLUTION_FOUND, PUZZLE_DEAD_END,
\* ALGORITHM_DEAD_END or TIMEOUT, which can follow any step that returned
\* CONTINUE), the final grid of the summary holds no value twice in a row,
\* a column or a region: no algorithm applies a value one of the peers of
\* the cell holds.
FinalGridObeysRules ==
    pc = "done" => obeys_rules(summary.final_grid)

\* a search the timeout ends after several values were applied
TimeoutAfterSeveralValues ==
    /\ pc = "done"
    /\ summary.outcome = "TIMEOUT"
    /\ summary.cell_values_tried >= 3
    /\ summary.final_grid # summary.original_puzzle

\* a grid of values can be completed: the cell a, one of the undefined ones,
\* takes a value none of the cells in conflict with it holds, and the rest
\* can be completed
RECURSIVE can_be_completed(_, _)
can_complete_from(values, undefined, a) ==
    \E v \in {w \in Values : \A b \in Conflicting[a] : values[b] # w} :
        can_be_completed([values EXCEPT ![a] = v], undefined \ {a})

can_be_completed(values, undefined) ==
    IF undefined = {} THEN TRUE
    ELSE can_complete_from(values, undefined, CHOOSE a \in undefined : TRUE)

\* the puzzle has at least one completion that obeys the rules
has_completion(grid) ==
    /\ obeys_rules(grid)
    /\ can_be_completed([a \in AllCells |-> value_at(grid, a)],
                        undefined_cells_of(grid))

\* C3: a brute-force variant that is not stopped by the timeout ends with
\* SOLUTION_FOUND if the puzzle has a completion obeying the rules and with
\* PUZZLE_DEAD_END if it has none, and it ends with one of the two: no step
\* of it raises an exception.
BruteForceIsExhaustive ==
    /\ (pc = "done" /\ algorithm_name \in BruteForceNames
            /\ summary.outcome # "TIMEOUT") =>
          summary.outcome =
              IF has_completion(summary.original_puzzle)
                  THEN "SOLUTION_FOUND" ELSE "PUZZLE_DEAD_END"
    /\ (pc = "error" /\ algorithm_name \in BruteForceNames) =>
          raised = "InvalidPuzzleError"

\* a breadth-first search on a puzzle without completion, in which every
\* undefined cell had an applicable value at the start: a value was tried
\* before the queue was empty
ExhaustedAfterTryingValues ==
    /\ pc = "done"
    /\ algorithm_name = "Smart-BFS"
    /\ summary.outcome = "PUZZLE_DEAD_END"
    /\ summary.cell_values_tried >= 1
    /\ ~has_completion(summary.original_puzzle)

\* the loop of _SearchJob.execute with no timeout: next_step is called until
\* it returns something else than CONTINUE
RECURSIVE run_until_terminal(_)
run_until_terminal(stepped) ==
    IF stepped.raised = NoException /\ stepped.outcome = "CONTINUE"
        THEN run_until_terminal(NextStep(stepped.algorithm))
        ELSE stepped

\* start followed by the steps up to the terminal one, for a registered name
search_without_timeout(name, grid) ==
    run_until_terminal(
        NextStep(Start(create_algorithm_instance(name), GridCopy(grid)).algorithm))

\* the search ended with SOLUTION_FOUND and with the given cells
found_the_solution(stepped, cells) ==
    /\ stepped.raised = NoException
    /\ stepped.outcome = "SOLUTION_FOUND"
    /\ LastStepOutcome(stepped.algorithm).cells = cells

\* C4: on a puzzle on which UCS has ended with SOLUTION_FOUND, Smart-DFS and
\* Smart-BFS, run without timeout, end with SOLUTION_FOUND as well, and their
\* final grids equal the final grid of UCS cell for cell.
SmartSearchesShareTheUcsSolution ==
    (pc = "done" /\ algorithm_name = "UCS"
        /\ summary.outcome = "SOLUTION_FOUND") =>
        \A name \in {"Smart-DFS", "Smart-BFS"} :
            found_the_solution(
                search_without_timeout(name, summary.original_puzzle),
                summary.final_grid.cells)

\* UCS has solved a puzzle with five undefined cells
UcsSolvedByPropagation ==
    /\ pc = "done"
    /\ algorithm_name = "UCS"
    /\ summary.outcome = "SOLUTION_FOUND"
    /\ summary.cell_values_tried = 5
    /\ Cardinality(undefined_cells_of(summary.original_puzzle)) = 5

\* some undefined cell of the grid finds each of the nine values in a cell
\* of its row, its column or its region
has_dead_cell(grid) ==
    \E a \in undefined_cells_of(grid) : values_free_for(grid, a) = {}

\* the step about to be taken is a call of next_step
NextStepIsCalled ==
    \/ pc = "first_step"
    \/ /\ pc = "loop"
       /\ search_job.last_step_outcome = "CONTINUE"
       /\ pc' # "done"

\* C5: a next_step of UCS for which get_unambiguous_candidate yields no
\* candidate that is still applicable returns PUZZLE_DEAD_END if some
\* undefined cell of the grid of UCS has no applicable value, and
\* ALGORITHM_DEAD_END if every undefined cell has one.
UcsTellsTheDeadEndsApart ==
    [][(/\ algorithm_name = "UCS"
        /\ NextStepIsCalled
        /\ get_unambiguous_candidate(algorithm.search_support).candidate
              = NoCandidate)
       => /\ raised' = NoException
          /\ search_job'.last_step_outcome =
                IF has_dead_cell(LastStepOutcome(algorithm))
                    THEN "PUZZLE_DEAD_END" ELSE "ALGORITHM_DEAD_END"]_vars

\* UCS has applied candidates and has then run out of them on a grid in
\* which every undefined cell has an applicable value
UcsOutOfCandidates ==
    /\ algorithm_name = "UCS"
    /\ pc = "loop"
    /\ search_job.last_step_outcome = "ALGORITHM_DEAD_END"
    /\ search_job.cell_values_tried >= 1
    /\ ~has_dead_cell(LastStepOutcome(algorithm))

\* the queue of the breadth-first search is empty, or every node on the
\* stack of the depth-first search has had all its values tried
search_exhausted(self) ==
    IF self.kind = "BFS"
        THEN Len(self.queue) = 0
        ELSE \A i \in 1 .. Len(self.stack) : already_exhausted(self.stack[i])

\* C6: no next_step of a breadth-first or depth-first variant returns
\* ALGORITHM_DEAD_END; such a next_step returns PUZZLE_DEAD_END exactly when
\* the queue or the stack is exhausted; so a next_step that returns
\* ALGORITHM_DEAD_END is one of UCS.
BruteForceReportsPuzzleDeadEndOnly ==
    [][NextStepIsCalled =>
        /\ search_job'.last_step_outcome = "ALGORITHM_DEAD_END" =>
              algorithm_name = "UCS"
        /\ algorithm_name \in BruteForceNames =>
              /\ raised' = NoException
              /\ search_job'.last_step_outcome # "ALGORITHM_DEAD_END"
              /\ search_exhausted(algorithm) <=>
                    search_job'.last_step_outcome = "PUZZLE_DEAD_END"]_vars

\* a depth-first search whose stack ran empty after it had tried a value
StackExhaustedAfterTryingValues ==
    /\ algorithm_name = "Naive-DFS"
    /\ pc = "loop"
    /\ search_job.last_step_outcome = "PUZZLE_DEAD_END"
    /\ search_job.cell_values_tried >= 1
    /\ algorithm.stack = << >>

\* C7: when a search has ended with ALGORITHM_DEAD_END, every undefined cell
\* of the final grid has two or more applicable values: two or more values
\* that no cell of its row, its column or its region holds, which is also
\* what the exclusion logic of the search counts for the cell.
AlgorithmDeadEndLeavesTwoValues ==
    (pc = "done" /\ summary.outcome = "ALGORITHM_DEAD_END") =>
        \A a \in undefined_cells_of(summary.final_grid) :
            /\ Cardinality(values_free_for(summary.final_grid, a)) >= 2
            /\ get_applicable_value_count(
                    algorithm.search_support.exclusion_logic, a[1], a[2]) >= 2

\* a search that has ended with ALGORITHM_DEAD_END after it had applied
\* candidates, with four undefined cells left
AlgorithmDeadEndReported ==
    /\ pc = "done"
    /\ summary.outcome = "ALGORITHM_DEAD_END"
    /\ summary.cell_values_tried >= 1
    /\ Cardinality(undefined_cells_of(summary.final_grid)) = 4

\* the grid is the input puzzle with the given number of its undefined cells
\* completed
input_with_values_added(grid, input, count) ==
    /\ \A a \in AllCells :
          value_at(input, a) # 0 =>
              grid.cells[a[1]][a[2]] = input.cells[a[1]][a[2]]
    /\ undefined_cells_of(grid) \subseteq undefined_cells_of(input)
    /\ Cardinality(undefined_cells_of(input))
          = Cardinality(undefined_cells_of(grid)) + count

\* C8 as claimed: on a valid puzzle in which some undefined cell has all
\* nine values excluded by its peers, the very first next_step of each of
\* the five algorithms returns PUZZLE_DEAD_END, no value is tried, and the
\* grid reported is the input puzzle.
DeadPuzzleEndsOnTheFirstStep ==
    (pc = "loop" /\ has_dead_cell(puzzle)) =>
        /\ search_job.last_step_outcome = "PUZZLE_DEAD_END"
        /\ search_job.cell_values_tried = 0
        /\ LastStepOutcome(algorithm).cells = puzzle.cells

\* C8 as amended: on such a puzzle the four breadth-first and depth-first
\* variants return PUZZLE_DEAD_END on their very first next_step, no value
\* is tried and the grid reported is the input puzzle.  UCS returns CONTINUE
\* for as long as its queue yields a candidate that is still applicable and
\* PUZZLE_DEAD_END on the first next_step that finds none; the grid it
\* reports is the input puzzle with the values it applied.
DeadPuzzleEndsInPuzzleDeadEnd ==
    /\ [](pc = "loop" /\ has_dead_cell(puzzle) =>
            IF algorithm_name \in BruteForceNames
                THEN /\ search_job.last_step_outcome = "PUZZLE_DEAD_END"
                     /\ search_job.cell_values_tried = 0
                     /\ LastStepOutcome(algorithm).cells = puzzle.cells
                ELSE /\ search_job.last_step_outcome
                            \in {"CONTINUE", "PUZZLE_DEAD_END"}
                     /\ input_with_values_added(LastStepOutcome(algorithm),
                            puzzle, search_job.cell_values_tried))
    /\ [][(/\ algorithm_name = "UCS"
           /\ pc \in {"first_step", "loop"}
           /\ has_dead_cell(puzzle)
           /\ NextStepIsCalled)
          => /\ raised' = NoException
             /\ search_job'.last_step_outcome =
                   IF get_unambiguous_candidate(algorithm.search_support)
                          .candidate = NoCandidate
                       THEN "PUZZLE_DEAD_END" ELSE "CONTINUE"]_vars

\* UCS on such a puzzle has applied candidates before it has returned
\* PUZZLE_DEAD_END
UcsDeadEndAfterCandidates ==
    /\ algorithm_name = "UCS"
    /\ pc = "loop"
    /\ has_dead_cell(puzzle)
    /\ search_job.last_step_outcome = "PUZZLE_DEAD_END"
    /\ search_job.cell_values_tried >= 1

NextStepIsDue ==
    \/ pc = "first_step"
    \/ pc = "loop" /\ search_job.last_step_outcome = "CONTINUE"

\* the step ends the search with TIMEOUT and calls no next_step
EndsWithTimeout ==
    /\ pc' = "done"
    /\ summary'.outcome = "TIMEOUT"
    /\ UNCHANGED << algorithm, search_job >>

\* C10 as claimed: the elapsed time is compared with the timeout before each
\* call of next_step, the first one after start included; where the timeout
\* is exceeded, next_step is not called and the outcome is TIMEOUT.
TimeoutCheckedBeforeEveryStep ==
    [][(NextStepIsDue /\ timeout_sec < elapsed) => EndsWithTimeout]_vars

\* C10 as amended: the elapsed time is compared with the timeout before each
\* call of next_step but the first one after start, which is made whatever
\* the elapsed time is; where the timeout is exceeded at the comparison,
\* next_step is not called and the outcome is TIMEOUT.
TimeoutCheckedBeforeLaterSteps ==
    [][/\ (pc = "loop" /\ search_job.last_step_outcome = "CONTINUE"
                /\ timeout_sec < elapsed) => EndsWithTimeout
       /\ pc = "first_step" =>
             /\ pc' \in {"loop", "error"}
             /\ search_job'.last_step_outcome # "None" \/ pc' = "error"]_vars

\* the timeout has ended a search at the first comparison, after the first
\* next_step
TimeoutAtTheFirstComparison ==
    /\ pc = "done"
    /\ summary.outcome = "TIMEOUT"
    /\ summary.cell_values_tried = 1


\* the number of cells of a grid the search has completed
completed_cell_count(grid) ==
    Cardinality({a \in AllCells : grid.cells[a[1]][a[2]].status = "COMPLETED"})

\* the predefined cells of the puzzle are the predefined cells of the grid,
\* with their values
same_predefined_cells(grid, original) ==
    \A a \in AllCells :
        (grid.cells[a[1]][a[2]].status = "PREDEFINED"
            \/ original.cells[a[1]][a[2]].status = "PREDEFINED")
          => grid.cells[a[1]][a[2]] = original.cells[a[1]][a[2]]

\* C11: when find_solution reports TIMEOUT, the final grid of the summary is
\* the grid the algorithm gave as last_step_outcome when the comparison with
\* the timeout was made, that is, after the last next_step that returned:
\* the step that ends with TIMEOUT leaves the algorithm as it was, and the
\* final grid holds the puzzle's predefined cells and at least one and at
\* most cell_values_tried completed cells (with UCS, which completes one
\* cell per step, exactly cell_values_tried), so no value of a further step
\* is in it.
TimeoutKeepsTheLastCompletedStep ==
    /\ [](pc = "done" /\ summary.outcome = "TIMEOUT" =>
            /\ same_predefined_cells(summary.final_grid, puzzle)
            /\ completed_cell_count(summary.final_grid)
                  \in 1 .. summary.cell_values_tried
            /\ algorithm_name = "UCS" =>
                  completed_cell_count(summary.final_grid)
                      = summary.cell_values_tried)
    /\ [][(pc' = "done" /\ summary'.outcome = "TIMEOUT") =>
            /\ summary'.final_grid = LastStepOutcome(algorithm)
            /\ summary'.cell_values_tried = search_job.cell_values_tried
            /\ UNCHANGED << algorithm, search_job >>]_vars

\* the timeout has ended a UCS search after two steps, each of which
\* completed a cell
UcsTimeoutAfterTwoSteps ==
    /\ pc = "done"
    /\ summary.outcome = "TIMEOUT"
    /\ algorithm_name = "UCS"
    /\ summary.cell_values_tried = 2
    /\ completed_cell_count(summary.final_grid) = 2

\* what a next_step that returned the given outcome adds to cell_values_tried
counted(step_outcome) ==
    IF step_outcome \in {"CONTINUE", "SOLUTION_FOUND"} THEN 1 ELSE 0

\* C12: cell_values_tried is 0 before the first next_step; a next_step that
\* returns CONTINUE or SOLUTION_FOUND adds one to it, one that returns
\* PUZZLE_DEAD_END or ALGORITHM_DEAD_END adds nothing, no other step of the
\* driver changes it, and the summary reports it as it then is.  So it is
\* the number of calls that returned CONTINUE, plus one if the last call
\* returned SOLUTION_FOUND.  With UCS, whose steps complete one cell each,
\* it is also the number of completed cells of the final grid.
CellValuesTriedCountsTheSteps ==
    /\ [](/\ pc \in {"execute", "first_step"} =>
                search_job.cell_values_tried = 0
          /\ (pc = "done" /\ algorithm_name = "UCS") =>
                summary.cell_values_tried
                    = completed_cell_count(summary.final_grid))
    /\ [][/\ (NextStepIsCalled /\ pc' = "loop") =>
                search_job'.cell_values_tried
                    = search_job.cell_values_tried
                        + counted(search_job'.last_step_outcome)
          /\ (~NextStepIsCalled /\ pc \in {"first_step", "loop"}) =>
                search_job'.cell_values_tried = search_job.cell_values_tried
          /\ pc' = "done" =>
                summary'.cell_values_tried = search_job.cell_values_tried]_vars

\* a search that ended with a dead end after two steps that returned
\* CONTINUE: the third step was not counted
DeadEndAfterTwoCountedSteps ==
    /\ pc = "done"
    /\ summary.outcome \in {"PUZZLE_DEAD_END", "ALGORITHM_DEAD_END"}
    /\ summary.cell_values_tried = 2

TerminalStepOutcomes ==
    {"SOLUTION_FOUND", "PUZZLE_DEAD_END", "ALGORITHM_DEAD_END"}

\* C13: once a next_step has returned SOLUTION_FOUND, PUZZLE_DEAD_END or
\* ALGORITHM_DEAD_END, the next step of the driver leaves the loop (to build
\* the summary or to raise) and the algorithm and the search job stay as
\* they are, so next_step is not called again; where the comparison of the
\* elapsed time with the timeout fails, the driver ends with TIMEOUT and
\* does not call next_step either; and after find_solution has ended the
\* algorithm and the search job never change.
NoNextStepAfterTheEnd ==
    [][/\ (pc = "loop" /\ search_job.last_step_outcome \in TerminalStepOutcomes)
            => /\ pc' \in {"done", "error"}
               /\ UNCHANGED << algorithm, search_job >>
       /\ (pc = "loop" /\ timeout_sec < elapsed)
            => /\ pc' \in {"done", "error"}
               /\ UNCHANGED << algorithm, search_job >>
       /\ pc \in {"done", "error"}
            => UNCHANGED << pc, algorithm, search_job >>]_vars

\* a breadth-first search has ended with PUZZLE_DEAD_END after steps that
\* returned CONTINUE, and its queue is empty
BfsEndedOnAnEmptyQueue ==
    /\ pc = "done"
    /\ algorithm.kind = "BFS"
    /\ summary.outcome = "PUZZLE_DEAD_END"
    /\ summary.cell_values_tried >= 1
    /\ algorithm.queue = << >>

\* the matrix holds a value twice in a row, a column or a region
has_duplicate_value(cell_values) ==
    \E a \in AllCells : \E b \in ConflictingAfter[a] :
        /\ cell_values[a[1]][a[2]] # 0
        /\ cell_values[a[1]][a[2]] = cell_values[b[1]][b[2]]

\* the matrix has no undefined cell
has_no_undefined_cell(cell_values) ==
    \A a \in AllCells : cell_values[a[1]][a[2]] # 0

is_rejected_puzzle(cell_values) ==
    has_duplicate_value(cell_values) \/ has_no_undefined_cell(cell_values)

FiveRegisteredNames ==
    {"Naive-BFS", "Smart-BFS", "Naive-DFS", "Smart-DFS", "UCS"}

\* find_solution has raised the exception before an algorithm was created
\* or started, and returns no summary
raised_before_the_search(exception) ==
    /\ pc = "error"
    /\ raised = exception
    /\ algorithm = NoAlgorithm
    /\ search_job = NoSearchJob
    /\ summary = NoSummary

\* what C14 claims of an input, given whether its puzzle is one with a
\* duplicate value or without an undefined cell
input_errors_as_claimed(rejected) ==
    /\ rejected => raised_before_the_search("InvalidPuzzleError")
    /\ algorithm_name \notin FiveRegisteredNames =>
          raised_before_the_search("NoSuchAlgorithmError")

\* C14 as claimed: find_solution raises InvalidPuzzleError for every puzzle
\* with a duplicate value or without an undefined cell, and
\* NoSuchAlgorithmError for every algorithm name that is not registered,
\* in each case before any algorithm is started and without a summary.
\* (Stated where find_solution has raised or has created the search job.)
InputErrorsForEveryPuzzleAndName ==
    pc \in {"error", "execute"} =>
        input_errors_as_claimed(is_rejected_puzzle(puzzle_cells))

input_errors_puzzle_first(rejected) ==
    /\ rejected => raised_before_the_search("InvalidPuzzleError")
    /\ (~rejected /\ algorithm_name \notin FiveRegisteredNames) =>
          raised_before_the_search("NoSuchAlgorithmError")
    /\ (~rejected /\ algorithm_name \in FiveRegisteredNames) =>
          /\ raised \notin {"InvalidPuzzleError", "NoSuchAlgorithmError"}
          /\ pc = "execute" => search_job # NoSearchJob

\* C14 as amended: find_solution raises InvalidPuzzleError for every puzzle
\* with a duplicate value or without an undefined cell, whatever the
\* algorithm name is, and NoSuchAlgorithmError for every algorithm name
\* that is not registered when the puzzle is not such a puzzle; in each
\* case no algorithm is created, started or stepped and no summary is
\* returned.  It raises neither for any other input.  (Stated where
\* find_solution has raised or has created the search job; nothing follows
\* a raised exception.)
InputErrorsPuzzleFirst ==
    pc \in {"error", "execute"} =>
        input_errors_puzzle_first(is_rejected_puzzle(puzzle_cells))

\* find_solution has raised NoSuchAlgorithmError for a puzzle it accepts
UnknownNameRejected ==
    /\ raised_before_the_search("NoSuchAlgorithmError")
    /\ ~is_rejected_puzzle(puzzle_cells)
    /\ puzzle # NoGrid

\* the grids of the search supports an algorithm holds, and the grid it
\* gives as last_step_outcome
held_grids(self) ==
    CASE self.kind = "UCS" ->
            IF self.search_support = << >> THEN {}
            ELSE {self.search_support.grid}
      [] self.kind = "BFS" ->
            {self.queue[i].search_support.grid : i \in DOMAIN self.queue}
                \cup (IF self.last_step_outcome = << >> THEN {}
                      ELSE {self.last_step_outcome})
      [] self.kind = "DFS" ->
            {self.stack[i].search_support.grid : i \in DOMAIN self.stack}
                \cup (IF self.last_step_outcome = << >> THEN {}
                      ELSE {self.last_step_outcome})
      [] OTHER -> {}

\* each predefined cell of the puzzle is in the grid as it is in the puzzle,
\* and each other cell of the grid is undefined or completed
keeps_predefined_cells(grid, original) ==
    \A a \in AllCells :
        IF original.cells[a[1]][a[2]].status = "PREDEFINED"
            THEN grid.cells[a[1]][a[2]] = original.cells[a[1]][a[2]]
            ELSE \/ grid.cells[a[1]][a[2]] = undefined_cell
                 \/ /\ grid.cells[a[1]][a[2]].status = "COMPLETED"
                    /\ grid.cells[a[1]][a[2]].value \in Values

\* each cell of the later grid is as in the earlier one, or was undefined
\* there and is completed now
only_completes_cells(later, earlier) ==
    \A a \in AllCells :
        \/ later.cells[a[1]][a[2]] = earlier.cells[a[1]][a[2]]
        \/ /\ earlier.cells[a[1]][a[2]].status = "UNDEFINED"
           /\ later.cells[a[1]][a[2]].status = "COMPLETED"

\* C18: in every grid a search support of the algorithm holds, in the grid
\* the algorithm gives as last_step_outcome, in the grid of the search job
\* and in the final grid of the summary, each cell that is predefined in
\* the puzzle has the status PREDEFINED and the value it has in the puzzle,
\* and no other cell is predefined; and each grid held after a next_step
\* comes from a grid held before it (or from the grid of the search job) by
\* changes of cells from UNDEFINED to COMPLETED alone.
PredefinedCellsAreKept ==
    /\ [](pc \in {"first_step", "loop", "done"} =>
            /\ \A grid \in held_grids(algorithm) \cup {search_job.puzzle} :
                    keeps_predefined_cells(grid, puzzle)
            /\ pc = "done" => keeps_predefined_cells(summary.final_grid,
                                                      puzzle))
    /\ [][NextStepIsCalled =>
            \A later \in held_grids(algorithm') :
                \E earlier \in held_grids(algorithm) \cup {search_job.puzzle} :
                    only_completes_cells(later, earlier)]_vars

\* a depth-first search holds a stack of three nodes: the grid of each has
\* a completed cell more than the one below
DfsHoldsThreeBranches ==
    /\ pc = "loop"
    /\ algorithm.kind = "DFS"
    /\ Len(algorithm.stack) >= 3
    /\ completed_cell_count(algorithm.stack[3].search_support.grid) = 2

-----------------------------------------------------------------------------
(* The calls on the objects: what the claims about them speak of *)

\* the step is a call of set_cell_value on a grid, or on a search support,
\* which passes it on to its grid
SetCellValueIsCalled ==
    call'.op \in {"Grid.set_cell_value", "SearchSupport.set_cell_value"}

\* the address of the grid a call of set_cell_value works on
grid_called(h, made) ==
    IF made.op = "Grid.set_cell_value" THEN made.target
    ELSE h.supports[made.target].grid

\* the grid has the same cells (value and status) and the same counter
\* before and after the step
grid_unchanged(g) ==
    deref_grid(heap', g) = deref_grid(heap, g)

\* what set_cell_value must have done, given the status of the cell before
set_cell_value_outcome(status_before, g) ==
    IF status_before # "UNDEFINED"
        THEN /\ call'.raised = "ValueError"
             /\ \A other \in DOMAIN heap.grids : grid_unchanged(other)
             /\ DOMAIN heap'.grids = DOMAIN heap.grids
        ELSE /\ call'.raised = NoException
             /\ deref_grid(heap', g).cells[call'.row][call'.column]
                    = [value |-> call'.value, status |-> "COMPLETED"]

\* C15: set_cell_value on a cell whose status is PREDEFINED or COMPLETED
\* raises ValueError and leaves the value and the status of every cell and
\* the undefined-cell count of the grid (and of every other grid) as they
\* were; a set_cell_value on an UNDEFINED cell makes it COMPLETED, so that a
\* second set_cell_value on the same cell fails.
SetCellValueFailsOnDefinedCells ==
    [][SetCellValueIsCalled =>
            set_cell_value_outcome(
                get_cell_status(deref_grid(heap, grid_called(heap, call')),
                                call'.row, call'.column),
                grid_called(heap, call'))]_vars

\* a second set_cell_value on a cell that a first one has completed has
\* raised ValueError
SecondSetCellValueFailed ==
    /\ call.op = "Grid.set_cell_value"
    /\ call.raised = "ValueError"
    /\ get_cell_status(deref_grid(heap, call.target), call.row, call.column)
          = "COMPLETED"

\* C16: right after C = G.copy() the clone C has the value and the status
\* of G in each of the 81 cells and the undefined-cell count of G, and G is
\* as it was; afterwards a set_cell_value on C changes no cell value, no
\* cell status and not the undefined-cell count of G, and a set_cell_value
\* on G changes nothing of C.
GridCloneIsIndependent ==
    [][/\ call'.op = "Grid.copy" =>
            /\ deref_grid(heap', "C") = deref_grid(heap, "G")
            /\ grid_unchanged("G")
       /\ (call'.op = "Grid.set_cell_value" /\ call'.target = "C") =>
            grid_unchanged("G")
       /\ (call'.op = "Grid.set_cell_value" /\ call'.target = "G"
                /\ "C" \in DOMAIN heap.grids) =>
            grid_unchanged("C")]_vars

\* the grid G and its clone C have each a completed cell that is undefined
\* in the other
GridAndCloneDiffer ==
    /\ "C" \in DOMAIN heap.grids
    /\ \E a, b \in AllCells :
        /\ get_cell_status(deref_grid(heap, "G"), a[1], a[2]) = "COMPLETED"
        /\ get_cell_status(deref_grid(heap, "C"), a[1], a[2]) = "UNDEFINED"
        /\ get_cell_status(deref_grid(heap, "C"), b[1], b[2]) = "COMPLETED"
        /\ get_cell_status(deref_grid(heap, "G"), b[1], b[2]) = "UNDEFINED"

\* the number of the cells of a grid with the status UNDEFINED
undefined_cells_counted(grid) ==
    Cardinality({a \in AllCells :
                    grid.cells[a[1]][a[2]].status = "UNDEFINED"})

\* the step is a set_cell_value that raised no exception and worked on the
\* grid at the address g
grid_is_set(g) ==
    /\ SetCellValueIsCalled
    /\ call'.raised = NoException
    /\ grid_called(heap, call') = g

\* C17: in every grid built from a matrix or by copy(), and after every
\* set_cell_value on it, whether it raised or not, the undefined-cell count
\* is the number of the cells with the status UNDEFINED; a set_cell_value
\* that raises nothing makes the count of its grid one less, and no other
\* call changes the count of a grid.
UndefinedCountCountsTheUndefinedCells ==
    /\ [](\A g \in DOMAIN heap.grids :
            heap.grids[g].undefined_cell_count
                = undefined_cells_counted(deref_grid(heap, g)))
    /\ [][\A g \in DOMAIN heap.grids :
            heap'.grids[g].undefined_cell_count
                = heap.grids[g].undefined_cell_count
                    - (IF grid_is_set(g) THEN 1 ELSE 0)]_vars

\* every undefined cell of the grid G is completed, so that its count has
\* come down to 0, and the call made last has raised ValueError
CountDownToZero ==
    /\ pc = "objects"
    /\ heap.grids["G"].undefined_cell_count = 0
    /\ undefined_cells_counted(create_from_cell_values(puzzle_cells)) >= 2
    /\ call.op = "Grid.set_cell_value"
    /\ call.target = "G"
    /\ call.raised = "ValueError"

\* the answers of a search support to the queries that change nothing
answers(search_support) ==
    [has_completed_grid |-> has_completed_grid(search_support),
     has_empty_cells_without_applicable_candidates |->
        has_empty_cells_without_applicable_candidates(search_support),
     first_undefined_cell |->
        get_undefined_cell_candidates(search_support, "FIRST_UNDEFINED_CELL"),
     undefined_cell_with_least_candidates |->
        get_undefined_cell_candidates(search_support,
                                      "UNDEFINED_CELL_WITH_LEAST_CANDIDATES"),
     grid |-> SearchSupportGrid(search_support)]

\* the candidate get_unambiguous_candidate would return
next_unambiguous_candidate(search_support) ==
    get_unambiguous_candidate(search_support).candidate

support_unchanged(s) ==
    s \in DOMAIN heap.supports =>
        deref_support(heap', s) = deref_support(heap, s)

\* C20: a set_cell_value (and a get_unambiguous_candidate) on the copy SC of
\* a search support S leaves the grid of S, the masks and the counts of the
\* candidate values of all 81 cells, the masks and the counts of the
\* candidate cells of all 81 regions of the nine values and the pending
\* candidate queue of S as they were; and a call on S, or a set_cell_value
\* on the grid S works on, leaves all of these as they were in SC.
SupportCloneIsIndependent ==
    [][/\ call'.target = "SC" => support_unchanged("S")
       /\ (call'.target \in {"S", "G"} /\ call'.op # "SearchSupport.copy") =>
            support_unchanged("SC")]_vars

\* the search support S and its copy SC have each completed a cell that is
\* undefined in the other
SupportAndCloneDiffer ==
    /\ "SC" \in DOMAIN heap.supports
    /\ \E a, b \in {<< input[1], input[2] >> : input \in SetInputs} :
        /\ heap.lists[<< heap.supports["S"].grid, a[1] >>][a[2]].status
              = "COMPLETED"
        /\ heap.lists[<< "SC", a[1] >>][a[2]].status = "UNDEFINED"
        /\ heap.lists[<< "SC", b[1] >>][b[2]].status = "COMPLETED"
        /\ heap.lists[<< heap.supports["S"].grid, b[1] >>][b[2]].status
              = "UNDEFINED"
        /\ Len(heap.deques["SC"]) > 0

\* the cell a next_step of the algorithm may pass to set_cell_value is
\* UNDEFINED in the grid of the search support it is set in: the cell of
\* every step input of the queue, the cell of every node of the stack, and
\* the cell of every candidate of the queue of UCS that is still applicable
cells_to_set_are_undefined(self) ==
    CASE self.kind = "BFS" ->
            \A i \in DOMAIN self.queue :
                get_cell_status(self.queue[i].search_support.grid,
                    self.queue[i].row, self.queue[i].column) = "UNDEFINED"
      [] self.kind = "DFS" ->
            \A i \in DOMAIN self.stack :
                get_cell_status(self.stack[i].search_support.grid,
                    self.stack[i].candidate_list.row,
                    self.stack[i].candidate_list.column) = "UNDEFINED"
      [] self.kind = "UCS" ->
            \/ self.search_support = << >>
            \/ \A i \in DOMAIN self.search_support.candidate_queue :
                is_applicable(self.search_support.exclusion_logic,
                              self.search_support.candidate_queue[i])
                    => get_cell_status(self.search_support.grid,
                            self.search_support.candidate_queue[i].row,
                            self.search_support.candidate_queue[i].column)
                         = "UNDEFINED"
      [] OTHER -> TRUE

\* C21: for every valid, incomplete puzzle and each of the five algorithms,
\* no next_step calls set_cell_value on a cell that is not UNDEFINED:
\* find_solution never ends with the ValueError of Grid.set_cell_value, and
\* in every state the cells the next calls of next_step may set are
\* UNDEFINED in the grids they are set in.
NoIllegalCellMutation ==
    /\ raised # "ValueError"
    /\ cells_to_set_are_undefined(algorithm)

\* UCS has set two cells and holds a pending candidate that is no longer
\* applicable, since its cell is completed by now
UcsHoldsAStaleCandidate ==
    /\ pc = "loop"
    /\ algorithm.kind = "UCS"
    /\ search_job.cell_values_tried >= 2
    /\ \E i \in DOMAIN algorithm.search_support.candidate_queue :
        get_cell_status(algorithm.search_support.grid,
            algorithm.search_support.candidate_queue[i].row,
            algorithm.search_support.candidate_queue[i].column) = "COMPLETED"

\* the depth of a work item: the number of values applied on top of the
\* puzzle once the item is processed
depth_of(step_input) ==
    undefined_cells_counted(puzzle)
        - undefined_cells_counted(step_input.search_support.grid) + 1

\* C30: a breadth-first search processes its work items level by level.
\* The queue holds the items in the order of their depths, and these are at
\* most two adjacent depths; a next_step processes the item at the head,
\* which is of the least depth in the queue, and leaves last_step_outcome
\* with that many values applied; so the number of undefined cells of
\* last_step_outcome never goes up from one next_step to the next.
BfsWorksLevelByLevel ==
    /\ [](algorithm.kind = "BFS" /\ pc \in {"first_step", "loop"} =>
            \A i, j \in DOMAIN algorithm.queue :
                i < j => /\ depth_of(algorithm.queue[i])
                              <= depth_of(algorithm.queue[j])
                         /\ depth_of(algorithm.queue[j])
                              <= depth_of(algorithm.queue[i]) + 1)
    /\ [][NextStepIsCalled /\ algorithm.kind = "BFS" =>
            /\ undefined_cells_counted(algorithm'.last_step_outcome)
                  <= undefined_cells_counted(algorithm.last_step_outcome)
            /\ Len(algorithm.queue) > 0 =>
                /\ undefined_cells_counted(algorithm'.last_step_outcome)
                      = undefined_cells_counted(puzzle)
                            - depth_of(Head(algorithm.queue))
                /\ \A i \in DOMAIN algorithm'.queue :
                      depth_of(algorithm'.queue[i])
                          >= depth_of(Head(algorithm.queue))
            /\ Len(algorithm.queue) = 0 =>
                algorithm'.last_step_outcome = algorithm.last_step_outcome]_vars

\* a breadth-first search has dropped a branch and holds work items of two
\* levels: the items of the deeper level are behind those of the other
BfsHoldsTwoLevels ==
    /\ pc = "loop"
    /\ algorithm.kind = "BFS"
    /\ search_job.cell_values_tried >= 3
    /\ Len(algorithm.queue) >= 2
    /\ depth_of(algorithm.queue[Len(algorithm.queue)])
          > depth_of(Head(algorithm.queue))

\* the _CandidateValues object of the search support S for a cell
candidate_values_of(h, a) ==
    h.candidate_values[candidate_values_address("S", a[1], a[2])]

\* in the value exclusion of the search support S, the values applicable
\* to each cell are those the grid leaves for it: for an UNDEFINED cell
\* the values no cell of its row, its column or its region holds, for any
\* other cell none; the cached count is their number
applicable_as_the_grid_tells(h, grid) ==
    \A a \in AllCells :
        /\ candidate_values_of(h, a).bitmask
              = IF grid.cells[a[1]][a[2]].status = "UNDEFINED"
                    THEN values_free_for(grid, a)
                    ELSE {}
        /\ candidate_values_of(h, a).applicable_value_count
              = Cardinality(candidate_values_of(h, a).bitmask)

\* C22: in a search support built on the grid of a puzzle (predefined
\* cells only) and advanced by set_cell_value calls, a value v is
\* applicable to a cell in the value exclusion if and only if the cell is
\* UNDEFINED in the grid and no cell of its row, its column or its region
\* holds v; no value is applicable to a defined cell.
ApplicableIffFreeInTheGrid ==
    applicable_as_the_grid_tells(heap, deref_grid(heap, "G"))

\* two values are set, one of them the 6 for the cell (0, 1) of the puzzle
\* with three undefined rows: the 6 is excluded for the undefined cell
\* (0, 0), for which one value is left
ValueExcludedByCompletedPeers ==
    /\ call.op = "SearchSupport.set_cell_value"
    /\ call.raised = NoException
    /\ heap.lists[row_list_address("G", 0)][1] = completed_cells(6)
    /\ heap.lists[row_list_address("G", 0)][0] = undefined_cell
    /\ candidate_values_of(heap, << 0, 0 >>).applicable_value_count = 1

\* the step is a set_cell_value of the search support S that raised no
\* exception
SupportValueIsSet ==
    /\ call'.op = "SearchSupport.set_cell_value"
    /\ call'.target = "S"
    /\ call'.raised = NoException

\* the peers of the cell a whose count of applicable values goes from 2 to
\* 1 when the value v is excluded: v is one of two values in their mask
peers_left_with_one_value(h, a, v) ==
    {p \in Conflicting[a] :
        /\ candidate_values_of(h, p).applicable_value_count = 2
        /\ v \in candidate_values_of(h, p).bitmask}

\* the list apply_and_exclude_cell_value of the value exclusion returns
\* for the cell a and the value v holds one candidate for each of the given
\* peers and nothing else; each carries the address of its peer and the
\* one value the exclusion of v leaves in the mask of the peer
one_candidate_for_each(h, a, v, peers, result) ==
    /\ Len(result) = Cardinality(peers)
    /\ \A p \in Conflicting[a] :
        IF p \in peers
            THEN \E i \in DOMAIN result :
                    /\ result[i].row = p[1]
                    /\ result[i].column = p[2]
                    /\ candidate_values_of(h, p).bitmask
                          = {v, result[i].value}
                    /\ result[i].value # v
            ELSE \A i \in DOMAIN result :
                    << result[i].row, result[i].column >> # p

\* the pending candidates of S after the step are those before it followed
\* by the given list and, maybe, by more
enqueued_first(h, later, result) ==
    /\ Len(later.deques["S"]) >= Len(h.deques["S"]) + Len(result)
    /\ SubSeq(later.deques["S"], 1, Len(h.deques["S"]) + Len(result))
          = h.deques["S"] \o result

\* C23: apply_and_exclude_cell_value(row, column, value) of the value
\* exclusion returns exactly one UnambiguousCandidate for each peer of the
\* cell whose count of applicable values goes from 2 to 1 in the call,
\* with the address of the peer and its single remaining value, and
\* nothing (None) when there is no such peer: a peer whose mask does not
\* hold the value, or whose count ends at another number than 1, yields no
\* candidate.  These candidates are what set_cell_value enqueues first,
\* and the count of each such peer is 1 after the call.
ValueExclusionReportsTheNewSingles ==
    [][SupportValueIsSet =>
        /\ one_candidate_for_each(heap, << call'.row, call'.column >>,
                call'.value,
                peers_left_with_one_value(heap,
                    << call'.row, call'.column >>, call'.value),
                ValueApplyAndExclude(
                    deref_exclusion_logic(heap,
                        heap.supports["S"].exclusion_logic
                    ).candidate_value_exclusion,
                    call'.row, call'.column, call'.value).result)
        /\ enqueued_first(heap, heap',
                ValueApplyAndExclude(
                    deref_exclusion_logic(heap,
                        heap.supports["S"].exclusion_logic
                    ).candidate_value_exclusion,
                    call'.row, call'.column, call'.value).result)
        /\ \A p \in peers_left_with_one_value(heap,
                        << call'.row, call'.column >>, call'.value) :
                candidate_values_of(heap', p).applicable_value_count = 1
       ]_vars

\* in the puzzle with three undefined rows the 5 is set for the cell
\* (2, 0) after the 9 for the cell (1, 0): the cell (0, 0), a peer left
\* with the two values 5 and 6 before, is left with the 6, and the
\* candidate for it is pending
PeerLeftWithOneValue ==
    /\ call = Call("SearchSupport.set_cell_value", "S", 2, 0, 5, NoException)
    /\ heap.lists[row_list_address("G", 1)][0] = completed_cells(9)
    /\ candidate_values_of(heap, << 0, 0 >>).bitmask = {6}
    /\ \E i \in DOMAIN heap.deques["S"] :
            heap.deques["S"][i] = UnambiguousCandidate(0, 0, 6)

\* the _RegionCandidateCells object of the search support S for the value
\* w and the region k (the regions are numbered row by row from 1)
tracker_of(h, w, k) == h.region_cells[region_cells_address("S", w, k)]

\* the rows and the columns of the region of a tracker
rows_of(tracker) == tracker.topmost_row .. (tracker.topmost_row + 2)

columns_of(tracker) == tracker.leftmost_column .. (tracker.leftmost_column + 2)

\* the bits of the cells of a tracker that apply_and_exclude_cell_value
\* clears for the cell (row, column) and the value v
bits_to_clear(tracker, row, column, v) ==
    IF row \in rows_of(tracker) /\ column \in columns_of(tracker)
        THEN IF v = tracker.value
                THEN 0 .. 8
                ELSE {3 * (row - tracker.topmost_row)
                        + (column - tracker.leftmost_column)}
    ELSE IF row \in rows_of(tracker) /\ v = tracker.value
        THEN {3 * (row - tracker.topmost_row) + j : j \in 0 .. 2}
    ELSE IF column \in columns_of(tracker) /\ v = tracker.value
        THEN {3 * i + (column - tracker.leftmost_column) : i \in 0 .. 2}
    ELSE {}

\* the candidates enqueued in the step: the pending candidates of S after
\* it without those pending before it
enqueued_in_step(h, later) ==
    SubSeq(later.deques["S"], Len(h.deques["S"]) + 1, Len(later.deques["S"]))

\* none of the candidates is one for the value and a cell of the region of
\* the tracker
none_for_the_region(tracker, candidates) ==
    \A i \in DOMAIN candidates :
        ~(/\ candidates[i].value = tracker.value
          /\ candidates[i].row \in rows_of(tracker)
          /\ candidates[i].column \in columns_of(tracker))

\* C24: for the tracker of the value w and the region R,
\* apply_and_exclude_cell_value(row, column, v) clears all 9 bits of the
\* mask and reports no candidate if the cell is inside R and v = w, clears
\* the bit of the cell alone if the cell is inside R and v # w, clears the 3
\* bits of the slice of the row (the column) of the cell within R if the
\* cell is outside R, its row (column) crosses R and v = w, and leaves the
\* mask unchanged in every other case.  The other fields of the tracker
\* but the count are unchanged.
TrackerClearsTheBitsOfTheCase ==
    [][SupportValueIsSet =>
        \A w \in Values, k \in 1 .. Size :
            /\ tracker_of(heap', w, k).bitmask
                  = tracker_of(heap, w, k).bitmask
                        \ bits_to_clear(tracker_of(heap, w, k),
                                        call'.row, call'.column, call'.value)
            /\ tracker_of(heap', w, k).value = w
            /\ tracker_of(heap', w, k).topmost_row
                  = tracker_of(heap, w, k).topmost_row
            /\ tracker_of(heap', w, k).leftmost_column
                  = tracker_of(heap, w, k).leftmost_column
            /\ (/\ w = call'.value
                /\ call'.row \in rows_of(tracker_of(heap, w, k))
                /\ call'.column \in columns_of(tracker_of(heap, w, k)))
                  => /\ tracker_of(heap', w, k).applicable_cell_count = 0
                     /\ none_for_the_region(tracker_of(heap, w, k),
                            enqueued_in_step(heap, heap'))
       ]_vars

\* in the puzzle with three undefined rows the 6 is set for the cell
\* (0, 4): of the cells (0, 0), (1, 0) and (2, 0), the cells of the first
\* region the 6 was applicable to, the row of the cell takes the first
\* away; in the region of the cell no cell is left for the 6
RowSliceCleared ==
    /\ call = Call("SearchSupport.set_cell_value", "S", 0, 4, 6, NoException)
    /\ heap.lists[row_list_address("G", 0)][0] = undefined_cell
    /\ tracker_of(heap, 6, 1).bitmask = {3, 6}
    /\ tracker_of(heap, 6, 2).bitmask = {}
\* the trackers of S, as pairs of a value and a region, whose cached count
\* of applicable cells is more than 1 before the step and 1 after it
trackers_left_with_one_cell(h, later) ==
    {t \in Values \X (1 .. Size) :
        /\ tracker_of(h, t[1], t[2]).applicable_cell_count > 1
        /\ tracker_of(later, t[1], t[2]).applicable_cell_count = 1}

\* the place of a tracker among the given ones in the order of the loops of
\* apply_and_exclude_cell_value: the values from 1 to 9, for each value the
\* regions row by row
place_among(trackers, t) ==
    Cardinality({u \in trackers :
        Size * u[1] + u[2] <= Size * t[1] + t[2]})

\* the candidate with the value of the tracker and the cell of the bit i
candidate_of_the_bit(tracker, i) ==
    UnambiguousCandidate(tracker.topmost_row + (i \div RegionSize),
                         tracker.leftmost_column + (i % RegionSize),
                         tracker.value)

\* the list holds one candidate for each of the given trackers, in their
\* order, and nothing else; each is the candidate for the single bit left
\* in the mask of its tracker
one_candidate_for_each_tracker(later, trackers, result) ==
    /\ Len(result) = Cardinality(trackers)
    /\ \A t \in trackers :
        \E i \in 0 .. (Size - 1) :
            /\ tracker_of(later, t[1], t[2]).bitmask = {i}
            /\ result[place_among(trackers, t)]
                  = candidate_of_the_bit(tracker_of(later, t[1], t[2]), i)

\* the candidates the step enqueues after the given number of candidates
enqueued_after(h, later, count) ==
    SubSeq(later.deques["S"], Len(h.deques["S"]) + count + 1,
           Len(later.deques["S"]))

\* C25: in one apply_and_exclude_cell_value a tracker of a value and a
\* region reports an unambiguous candidate exactly when its count of
\* applicable cells goes from a higher number to exactly 1, and the
\* candidate has the value of the tracker and the cell of the single
\* remaining bit i, (topmost_row + i div 3, leftmost_column + i mod 3):
\* what set_cell_value enqueues after the candidates of the value
\* exclusion is one such candidate for each such tracker, in the order of
\* the trackers, and nothing else.
TrackerReportsTheNewSingleCell ==
    [][SupportValueIsSet =>
        one_candidate_for_each_tracker(heap',
            trackers_left_with_one_cell(heap, heap'),
            enqueued_after(heap, heap',
                Cardinality(peers_left_with_one_value(heap,
                    << call'.row, call'.column >>, call'.value))))
       ]_vars

\* in the puzzle with three undefined rows the 9 is set for the cell
\* (1, 0) after the 6 for the cell (0, 4): of the cells (1, 0) and (2, 0)
\* left for the 6 in the first region the cell (2, 0) remains, and the
\* candidate for it is the last one pending
OneCellLeftForTheValue ==
    /\ call = Call("SearchSupport.set_cell_value", "S", 1, 0, 9, NoException)
    /\ heap.lists[row_list_address("G", 0)][4] = completed_cells(6)
    /\ tracker_of(heap, 6, 1).bitmask = {6}
    /\ tracker_of(heap, 6, 1).applicable_cell_count = 1
    /\ Len(heap.deques["S"]) > 0
    /\ heap.deques["S"][Len(heap.deques["S"])] = UnambiguousCandidate(2, 0, 6)
\* the step is a get_unambiguous_candidate of the search support S
PendingCandidateIsAsked ==
    /\ call'.op = "SearchSupport.get_unambiguous_candidate"
    /\ call'.target = "S"

\* the grid leaves the value of the candidate for its cell: the cell is
\* UNDEFINED and no cell of its row, its column or its region holds the
\* value
left_by_the_grid(grid, candidate) ==
    /\ grid.cells[candidate.row][candidate.column].status = "UNDEFINED"
    /\ candidate.value
          \in values_free_for(grid, << candidate.row, candidate.column >>)

\* the later queue is the earlier one without its first candidates, of
\* which the grid leaves none but, maybe, the last
front_is_taken(grid, queue, later, returned) ==
    /\ Len(later) <= Len(queue)
    /\ later = SubSeq(queue, Len(queue) - Len(later) + 1, Len(queue))
    /\ \A i \in 1 .. (Len(queue) - Len(later)) :
            IF returned /\ i = Len(queue) - Len(later)
                THEN left_by_the_grid(grid, queue[i])
                ELSE ~left_by_the_grid(grid, queue[i])

\* C26: get_unambiguous_candidate takes the pending candidates from the
\* front of the queue in the order they were enqueued, discards each one
\* whose value is not applicable to its cell any more (the cell is
\* defined, or a peer holds the value) and returns the first that is; it
\* returns None once the queue is empty.  The candidate returned is one
\* for an UNDEFINED cell and a value no peer of the cell holds, also when
\* the same candidate is pending twice.  The grid and the exclusion state
\* are left as they are.
FirstApplicablePendingCandidate ==
    [][PendingCandidateIsAsked =>
        /\ front_is_taken(deref_grid(heap, "G"), heap.deques["S"],
                          heap'.deques["S"], call'.row # -1)
        /\ IF call'.row = -1
              THEN heap'.deques["S"] = << >>
              ELSE /\ Len(heap'.deques["S"]) < Len(heap.deques["S"])
                   /\ UnambiguousCandidate(call'.row, call'.column,
                                           call'.value)
                        = heap.deques["S"][Len(heap.deques["S"])
                                           - Len(heap'.deques["S"])]
        /\ heap'.lists = heap.lists
        /\ heap'.candidate_values = heap.candidate_values
        /\ heap'.region_cells = heap.region_cells
       ]_vars

\* a candidate that was pending twice is returned while its cell is
\* UNDEFINED, and it is pending once more
DuplicateCandidateReturned ==
    /\ call.op = "SearchSupport.get_unambiguous_candidate"
    /\ call.row # -1
    /\ heap.lists[row_list_address("G", call.row)][call.column]
          = undefined_cell
    /\ \E i \in DOMAIN heap.deques["S"] :
            heap.deques["S"][i]
                = UnambiguousCandidate(call.row, call.column, call.value)
\* the UNDEFINED cell of the grid no other UNDEFINED cell precedes in the
\* order of the rows and, within a row, of the columns
is_first_undefined(grid, a) ==
    /\ a \in undefined_cells_of(grid)
    /\ \A b \in undefined_cells_of(grid) :
            Size * a[1] + a[2] <= Size * b[1] + b[2]

\* the call returned the candidate list of the cell a with as many values
\* as the mask of the cell holds
list_of_cell_returned(h, a, returned) ==
    /\ returned.raised = NoException
    /\ returned.row = a[1]
    /\ returned.column = a[2]
    /\ returned.value = Cardinality(candidate_values_of(h, a).bitmask)

\* C27: get_undefined_cell_candidates(FIRST_UNDEFINED_CELL) returns the
\* candidate list of the first UNDEFINED cell in the order of the rows
\* and, within a row, of the columns, however many values are applicable
\* to that cell, with the address of that cell and all its applicable
\* values.
FirstUndefinedCellWhateverItsCount ==
    [][call'.op = "FIRST_UNDEFINED_CELL" =>
        \A a \in AllCells :
            is_first_undefined(deref_grid(heap, "G"), a)
                => list_of_cell_returned(heap, a, call')
       ]_vars
\* the cells of the search support S with a positive count of applicable
\* values
cells_with_candidates(h) ==
    {a \in AllCells : candidate_values_of(h, a).applicable_value_count > 0}

\* the place of a cell in the order of the rows and, within a row, of the
\* columns
scan_order(a) == Size * a[1] + a[2]

\* of the cells with a positive count none has a lower count than the cell
\* a, and none with the same count precedes it
is_first_with_least_candidates(h, a) ==
    /\ a \in cells_with_candidates(h)
    /\ \A b \in cells_with_candidates(h) :
        \/ candidate_values_of(h, a).applicable_value_count
              < candidate_values_of(h, b).applicable_value_count
        \/ /\ candidate_values_of(h, a).applicable_value_count
                  = candidate_values_of(h, b).applicable_value_count
           /\ scan_order(a) <= scan_order(b)

\* the candidate list is the one of the cell a with the values applicable
\* to it, each once
list_of_the_cell(h, a, candidate_list) ==
    /\ candidate_list.row = a[1]
    /\ candidate_list.column = a[2]
    /\ Len(candidate_list.values)
          = candidate_values_of(h, a).applicable_value_count
    /\ {candidate_list.values[i] : i \in DOMAIN candidate_list.values}
          = candidate_values_of(h, a).bitmask

\* C28: get_undefined_cell_candidates(UNDEFINED_CELL_WITH_LEAST_CANDIDATES)
\* returns the cell whose count of applicable values is the least among
\* the cells with a positive count, the first of them in the order of the
\* rows and, within a row, of the columns when several have that count,
\* together with all its applicable values; None when no cell has a
\* positive count.
LeastCandidatesFirstInScanOrder ==
    [][call'.op = "UNDEFINED_CELL_WITH_LEAST_CANDIDATES" =>
        /\ call'.raised = NoException
        /\ call'.value
              = Len(get_undefined_cell_candidates(deref_support(heap, "S"),
                        "UNDEFINED_CELL_WITH_LEAST_CANDIDATES").values)
        /\ IF cells_with_candidates(heap) = {}
              THEN call'.row = -1 /\ call'.value = 0
              ELSE /\ is_first_with_least_candidates(heap,
                            << call'.row, call'.column >>)
                   /\ list_of_the_cell(heap,
                            << call'.row, call'.column >>,
                            get_undefined_cell_candidates(
                                deref_support(heap, "S"),
                                "UNDEFINED_CELL_WITH_LEAST_CANDIDATES"))
       ]_vars

\* the answer is a cell that an UNDEFINED cell with more applicable values
\* precedes and that a cell with as many applicable values follows
LaterCellWithFewerCandidates ==
    /\ call.op = "UNDEFINED_CELL_WITH_LEAST_CANDIDATES"
    /\ call.row # -1
    /\ \E b \in cells_with_candidates(heap) :
            /\ scan_order(b) < scan_order(<< call.row, call.column >>)
            /\ candidate_values_of(heap, b).applicable_value_count
                  > call.value
    /\ \E b \in cells_with_candidates(heap) :
            /\ scan_order(b) > scan_order(<< call.row, call.column >>)
            /\ candidate_values_of(heap, b).applicable_value_count
                  = call.value
\* the addresses of the search supports of the pending work: of the step
\* inputs in the queue of a BFS, of the nodes on the stack of a DFS
pending_supports(self) ==
    IF self.kind = "BFS"
        THEN [i \in DOMAIN self.queue |-> self.queue[i].search_support]
        ELSE [i \in DOMAIN self.stack |-> self.stack[i].search_support]

\* the objects that hold the state of the search support at an address:
\* the search support, its deque, its grid, the lists of the rows of the
\* grid, and the objects of the exclusion logic
objects_of(h, s) ==
    [supports |-> {s},
     deques |-> {h.supports[s].candidate_queue},
     grids |-> {h.supports[s].grid},
     lists |-> {h.grids[h.supports[s].grid].cells[row] : row \in Idx},
     candidate_values |->
        {h.supports[s].exclusion_logic.candidate_value_exclusion[row][column] :
            row \in Idx, column \in Idx},
     region_cells |->
        {h.supports[s].exclusion_logic.candidate_cell_exclusion[w][k] :
            w \in 1 .. Size, k \in 1 .. Size}]

\* two search supports have no object in common
nothing_shared(h, s, t) ==
    /\ objects_of(h, s).supports \cap objects_of(h, t).supports = {}
    /\ objects_of(h, s).deques \cap objects_of(h, t).deques = {}
    /\ objects_of(h, s).grids \cap objects_of(h, t).grids = {}
    /\ objects_of(h, s).lists \cap objects_of(h, t).lists = {}
    /\ objects_of(h, s).candidate_values
          \cap objects_of(h, t).candidate_values = {}
    /\ objects_of(h, s).region_cells \cap objects_of(h, t).region_cells = {}

\* no two entries of the pending work have an object in common
branches_share_nothing(h, pending) ==
    \A i, j \in DOMAIN pending :
        i # j => nothing_shared(h, pending[i], pending[j])

\* the search supports a next_step may change: for the BFS the one of the
\* step input it takes from the queue, for the DFS none
supports_of_the_step(self) ==
    IF self.kind = "BFS" /\ Len(self.queue) > 0
        THEN {Head(self.queue).search_support}
        ELSE {}

\* C29: in every state of a BFS or DFS run no two pending step inputs of
\* the BFS and no two nodes on the stack of the DFS share a SearchSupport
\* or any object a SearchSupport keeps its grid or its exclusion state in,
\* and a next_step changes the grid, the exclusion state and the queue of
\* no search support but the one of the step input it takes from the
\* queue: the search support of a node of the DFS is never changed once
\* the node is pushed.
BranchesOwnTheirSearchSupports ==
    /\ [](algorithm.kind \in {"BFS", "DFS"}
            => branches_share_nothing(heap, pending_supports(algorithm)))
    /\ [][call'.op = "next_step" =>
            \A s \in DOMAIN heap.supports \ supports_of_the_step(algorithm) :
                /\ s \in DOMAIN heap'.supports
                /\ deref_support(heap', s) = deref_support(heap, s)
         ]_vars

\* a next_step of a BFS has left four step inputs pending, and the grids
\* of the first and of the last of them differ
BfsBranchesDiffer ==
    /\ algorithm.kind = "BFS"
    /\ call.op = "next_step"
    /\ Len(algorithm.queue) = 4
    /\ deref_grid(heap, heap.supports[algorithm.queue[1].search_support].grid)
          # deref_grid(heap,
                heap.supports[algorithm.queue[4].search_support].grid)
\* the number of values of a node that are not tried yet
untried_values(node) == Len(node.candidate_list.values) - node.current_index

\* every node of the stack above the given place is exhausted
exhausted_above(entries, place) ==
    \A i \in (place + 1) .. Len(entries) : untried_values(entries[i]) <= 0

\* the stack after the given number of rounds, each a backtracking
\* followed by next_value of the node returned
RECURSIVE after_rounds(_, _)
after_rounds(entries, rounds) ==
    IF rounds = 0 \/ Len(backtrack_to_first_unexhausted_node(entries)) = 0
        THEN backtrack_to_first_unexhausted_node(entries)
        ELSE after_rounds(
                [backtrack_to_first_unexhausted_node(entries) EXCEPT
                    ![Len(backtrack_to_first_unexhausted_node(entries))] =
                        next_value(backtrack_to_first_unexhausted_node(
                            entries)[Len(backtrack_to_first_unexhausted_node(
                                entries))]).node],
                rounds - 1)

\* the node at the given place with k untried values is returned by k
\* rounds in a row, and the round after them reaches a node below it, or
\* none
returned_until_exhausted(entries, place, k) ==
    /\ \A rounds \in 0 .. (k - 1) :
            /\ Len(after_rounds(entries, rounds)) = place
            /\ untried_values(after_rounds(entries, rounds)[place])
                  = k - rounds
    /\ Len(after_rounds(entries, k)) < place

\* C31: backtrack_to_first_unexhausted_node pops the nodes from the top
\* of the stack while the node on top is exhausted, and returns the
\* topmost node that is not exhausted without popping it: the stack that
\* is left is the stack up to that node, and a node with k untried values
\* is returned by k successive rounds of backtracking and next_value
\* before a node below it is reached.  It returns None, and leaves the
\* stack empty, if and only if the stack is empty or every node is
\* exhausted.
BacktrackReturnsTheTopmostUnexhausted ==
    [][call'.op = "backtrack_to_first_unexhausted_node" =>
        /\ algorithm'.stack
              = SubSeq(algorithm.stack, 1, Len(algorithm'.stack))
        /\ exhausted_above(algorithm.stack, Len(algorithm'.stack))
        /\ call'.row = Len(algorithm'.stack) - 1
        /\ Len(algorithm'.stack) > 0 =>
              /\ untried_values(algorithm'.stack[Len(algorithm'.stack)]) > 0
              /\ returned_until_exhausted(algorithm.stack,
                    Len(algorithm'.stack),
                    untried_values(
                        algorithm'.stack[Len(algorithm'.stack)]))
        /\ call'.row = -1
              <=> exhausted_above(algorithm.stack, 0)
       ]_vars

\* the backtracking has popped two exhausted nodes and returned the bottom
\* node, of whose three values one is tried
TwoNodesPopped ==
    /\ call = Call("backtrack_to_first_unexhausted_node", "stack", 0, -1, 0,
                   NoException)
    /\ Len(algorithm.stack) = 1
    /\ algorithm.stack[1].current_index = 1
    /\ Len(algorithm.stack[1].candidate_list.values) = 3

\* C32: with no timeout, the calls of next_step on a valid, incomplete
\* puzzle by any of the five algorithms return an outcome other than
\* CONTINUE after finitely many steps: the loop of the driver ends without
\* the timeout.
NextStepsEndWithoutTimeout ==
    (pc = "first_step") ~>
        (pc = "loop" /\ search_job.last_step_outcome \in TerminalStepOutcomes)

\* a DFS has ended with SOLUTION_FOUND after more steps than the puzzle has
\* undefined cells: it has backtracked
DfsBacktrackedToTheSolution ==
    /\ pc = "loop"
    /\ algorithm.kind = "DFS"
    /\ search_job.last_step_outcome = "SOLUTION_FOUND"
    /\ search_job.cell_values_tried > MaxUndefined

\* the largest count of cell values there is stays below the bound
StepsBelowTheBound ==
    pc # "find_solution" /\ search_job # NoSearchJob
        => search_job.cell_values_tried < MaxSteps - 1

\* next_step is called after it has returned one of the given outcomes,
\* and returns
called_again_after(outcomes) ==
    /\ pc = "loop"
    /\ pc' = "loop"
    /\ search_job.last_step_outcome \in outcomes
    /\ call'.value > 0

\* the call returns what the call before it returned and leaves the grid
\* of last_step_outcome as it is
outcome_repeated ==
    /\ search_job'.last_step_outcome = search_job.last_step_outcome
    /\ LastStepOutcome(algorithm') = LastStepOutcome(algorithm)

\* C33: once next_step has returned PUZZLE_DEAD_END or ALGORITHM_DEAD_END,
\* any further call of next_step returns that same outcome and leaves
\* last_step_outcome unchanged.  (A call after SOLUTION_FOUND does not:
\* see EveryOutcomeButContinueRepeats.)
DeadEndsRepeat ==
    [][called_again_after({"PUZZLE_DEAD_END", "ALGORITHM_DEAD_END"})
        => outcome_repeated]_vars

\* C33 as stated: once next_step has returned SOLUTION_FOUND,
\* PUZZLE_DEAD_END or ALGORITHM_DEAD_END, any further call of next_step
\* returns that same outcome and leaves last_step_outcome unchanged.
EveryOutcomeButContinueRepeats ==
    [][called_again_after(TerminalStepOutcomes) => outcome_repeated]_vars

\* UCS has returned ALGORITHM_DEAD_END from its first call to its third
\* (the grid is not complete, so no call returned SOLUTION_FOUND)
DeadEndReturnedAgain ==
    /\ pc = "loop"
    /\ algorithm.kind = "UCS"
    /\ search_job.last_step_outcome = "ALGORITHM_DEAD_END"
    /\ search_job.cell_values_tried = 0
    /\ call.value = MaxFurtherCalls

\* the cells of a grid once the value is set in the cell
cells_with_value_set(grid, row, column, value) ==
    [grid.cells EXCEPT ![row][column] = completed_cells(value)]

\* the cells of the grid of a step input or of a candidate with its value
\* set
cells_after_candidate(grid, candidate) ==
    cells_with_value_set(grid, candidate.row, candidate.column,
                         candidate.value)

\* the cells of the grid of a node with the next value of the node set
cells_after_next_value(node) ==
    cells_with_value_set(node.search_support.grid, node.candidate_list.row,
                         node.candidate_list.column,
                         node.candidate_list.values[node.current_index + 1])

\* the cells of the grid to which the next step of the algorithm applies
\* its value: the grid of the step input at the front of the queue, the
\* grid of the topmost node that is not exhausted, the grid of UCS
cells_after_the_step(self) ==
    CASE self.kind = "BFS" ->
            cells_after_candidate(Head(self.queue).search_support.grid,
                                  Head(self.queue))
      [] self.kind = "DFS" ->
            cells_after_next_value(
                backtrack_to_first_unexhausted_node(self.stack)[
                    Len(backtrack_to_first_unexhausted_node(self.stack))])
      [] self.kind = "UCS" ->
            cells_after_candidate(self.search_support.grid,
                get_unambiguous_candidate(self.search_support).candidate)

\* C34: last_step_outcome after start and before any step equals the
\* puzzle; after a next_step that returned CONTINUE or SOLUTION_FOUND it
\* equals the grid to which that step applied its value; a next_step that
\* returned PUZZLE_DEAD_END or ALGORITHM_DEAD_END leaves it equal to what
\* it was before the call.
LastStepOutcomeFollowsTheSteps ==
    [][/\ pc' = "first_step" => LastStepOutcome(algorithm') = puzzle
       /\ NextStepIsDue /\ pc' = "loop" =>
            IF search_job'.last_step_outcome \in {"CONTINUE", "SOLUTION_FOUND"}
                THEN LastStepOutcome(algorithm').cells
                        = cells_after_the_step(algorithm)
                ELSE LastStepOutcome(algorithm') = LastStepOutcome(algorithm)
      ]_vars

\* a BFS has made three steps that returned CONTINUE, and its
\* last_step_outcome is neither the puzzle nor complete
BfsHoldsTheGridOfTheStep ==
    /\ pc = "loop"
    /\ algorithm.kind = "BFS"
    /\ search_job.last_step_outcome = "CONTINUE"
    /\ search_job.cell_values_tried = 3
    /\ algorithm.last_step_outcome.cells # puzzle.cells
    /\ ~is_complete(algorithm.last_step_outcome)

\* the number of the region that contains the cell (the regions are
\* numbered row by row from 1)
region_containing(a) == 3 * (a[1] \div 3) + (a[2] \div 3) + 1

\* the bit of the cell in the mask of the tracker of its region
bit_within_region(a) == 3 * (a[1] % 3) + (a[2] % 3)

\* C35: after any sequence of apply_and_exclude_cell_value calls on the
\* exclusion logic of a search support, its two halves agree: for every
\* cell and every value v, bit v of the candidate-value mask of the cell
\* is set if and only if the bit of the cell is set in the candidate-cell
\* mask of the tracker of v and the region that contains the cell.
TwoHalvesAgree ==
    \A a \in AllCells, v \in Values :
        v \in candidate_values_of(heap, a).bitmask
            <=> bit_within_region(a)
                    \in tracker_of(heap, v, region_containing(a)).bitmask

\* a value has been set in the column 0, in another region than the cell
\* (0, 0), which has lost the value in both halves and is left with other
\* values
ValueLostInBothHalves ==
    /\ call.op = "SearchSupport.set_cell_value"
    /\ call.raised = NoException
    /\ call.column = 0
    /\ call.row > 2
    /\ call.value \notin candidate_values_of(heap, << 0, 0 >>).bitmask
    /\ 0 \notin tracker_of(heap, call.value, 1).bitmask
    /\ candidate_values_of(heap, << 0, 0 >>).applicable_value_count > 0

\* the node at the given place of the stack (1 for the bottom) of a DFS on a
\* puzzle holds a grid with as many undefined cells fewer than the puzzle
\* as there are nodes below it, and a candidate list for a cell that is
\* UNDEFINED in that grid
node_at_its_depth(start_puzzle, node, place) ==
    /\ Cardinality(undefined_cells_of(node.search_support.grid))
          = Cardinality(undefined_cells_of(start_puzzle)) - (place - 1)
    /\ node.search_support.grid.undefined_cell_count
          = start_puzzle.undefined_cell_count - (place - 1)
    /\ get_cell_status(node.search_support.grid, node.candidate_list.row,
                       node.candidate_list.column) = "UNDEFINED"

\* C36: in every state of a DFS run on a puzzle with U undefined cells, the
\* node at the place k of the stack (0 for the bottom) holds a grid with
\* exactly U - k undefined cells and a candidate list for a cell that is
\* UNDEFINED in that grid, and the stack never holds more than U nodes.
DfsStackTracksTheDepth ==
    algorithm # NoAlgorithm /\ algorithm.kind = "DFS" =>
        /\ Len(algorithm.stack) <= puzzle.undefined_cell_count
        /\ \A place \in 1 .. Len(algorithm.stack) :
                node_at_its_depth(puzzle, algorithm.stack[place], place)

\* the stack of a DFS on a puzzle with four undefined cells holds four
\* nodes, of which the topmost has a grid with one undefined cell, and one
\* below it is exhausted
DfsStackAtFullDepth ==
    /\ algorithm # NoAlgorithm
    /\ algorithm.kind = "DFS"
    /\ puzzle.undefined_cell_count = 4
    /\ Len(algorithm.stack) = 4
    /\ algorithm.stack[4].search_support.grid.undefined_cell_count = 1
    /\ \E place \in 1 .. 3 : already_exhausted(algorithm.stack[place])

\* the algorithm is a UCS that is started
ucs_is_started(self) ==
    /\ self # NoAlgorithm
    /\ self.kind = "UCS"
    /\ self.search_support # << >>

\* the cell is UNDEFINED in the grid of the search support and has no
\* applicable value: none by the count of the value exclusion, and none by
\* the cells of its row, its column and its region
dead_cell_of(search_support, a) ==
    /\ get_cell_status(search_support.grid, a[1], a[2]) = "UNDEFINED"
    /\ get_applicable_value_count(search_support.exclusion_logic,
                                  a[1], a[2]) = 0
    /\ values_free_for(search_support.grid, a) = {}

\* the grid of the UCS has a dead cell
UcsAtDeadEnd ==
    /\ ucs_is_started(algorithm)
    /\ \E a \in AllCells : dead_cell_of(algorithm.search_support, a)

\* C37: in a UCS run a dead end is persistent: once some UNDEFINED cell of
\* the grid of UCS has no applicable value, that cell remains UNDEFINED with
\* no applicable value after every later step, so UCS does not return
\* SOLUTION_FOUND or ALGORITHM_DEAD_END afterwards, and eventually returns
\* PUZZLE_DEAD_END.
UcsDeadEndIsPersistent ==
    /\ [][ucs_is_started(algorithm) =>
            \A a \in AllCells :
                dead_cell_of(algorithm.search_support, a)
                    => dead_cell_of(algorithm'.search_support, a)]_vars
    /\ [](UcsAtDeadEnd =>
            search_job.last_step_outcome
                \notin {"SOLUTION_FOUND", "ALGORITHM_DEAD_END"})
    /\ UcsAtDeadEnd ~> (search_job.last_step_outcome = "PUZZLE_DEAD_END")

\* UCS has set a value in the grid of a puzzle with a dead cell, and has
\* returned PUZZLE_DEAD_END afterwards
UcsSteppedIntoTheDeadEnd ==
    /\ UcsAtDeadEnd
    /\ search_job.last_step_outcome = "PUZZLE_DEAD_END"
    /\ search_job.cell_values_tried > 0

\* the cell is the one Grid builds from the value of the input matrix:
\* UNDEFINED for None (0 here), PREDEFINED with the value otherwise
built_from(cell, input_value) ==
    /\ cell.value = input_value
    /\ cell.status = IF input_value = 0 THEN "UNDEFINED" ELSE "PREDEFINED"

\* C38: for every algorithm and every outcome, the original_puzzle of the
\* SearchSummary is cell for cell, value and status, the grid built from
\* the input matrix: no step of the search has changed it, the steps of UCS
\* included, which change the grid its start was given.
OriginalPuzzleIsTheInput ==
    pc = "done" =>
        /\ \A a \in AllCells :
                built_from(summary.original_puzzle.cells[a[1]][a[2]],
                           puzzle_cells[a[1]][a[2]])
        /\ summary.original_puzzle.undefined_cell_count
              = Cardinality({a \in AllCells : puzzle_cells[a[1]][a[2]] = 0})

\* the summary of a UCS that has completed every cell: the grid of the
\* search job is complete, the original puzzle of the summary is not
UcsSummaryKeepsThePuzzle ==
    /\ pc = "done"
    /\ algorithm_name = "UCS"
    /\ summary.outcome = "SOLUTION_FOUND"
    /\ is_complete(search_job.puzzle)
    /\ summary.original_puzzle.undefined_cell_count > 1

\* the number of next_step calls made in the search: every call is counted
\* as a cell value tried but the one that returned a dead end, which is
\* the last
next_step_calls_made ==
    search_job.cell_values_tried
        + (IF search_job.last_step_outcome
                \in {"PUZZLE_DEAD_END", "ALGORITHM_DEAD_END"} THEN 1 ELSE 0)

\* C39: in every UCS run on a puzzle with U undefined cells, after every
\* step cell_values_tried equals U minus the number of undefined cells of
\* last_step_outcome, so the run makes U + 1 next_step calls at most, and
\* the summary reports cell_values_tried = U when the outcome is
\* SOLUTION_FOUND.
UcsCountsTheCellsCompleted ==
    ucs_is_started(algorithm) =>
        /\ search_job.cell_values_tried
              = Cardinality(undefined_cells_of(puzzle))
                  - Cardinality(undefined_cells_of(LastStepOutcome(algorithm)))
        /\ next_step_calls_made <= Cardinality(undefined_cells_of(puzzle)) + 1
        /\ pc = "done" =>
              /\ summary.cell_values_tried = search_job.cell_values_tried
              /\ summary.outcome = "SOLUTION_FOUND" =>
                    summary.cell_values_tried
                        = Cardinality(undefined_cells_of(puzzle))

\* the summary of a UCS that completed every one of three cells or more
UcsSolvedInAsManySteps ==
    /\ pc = "done"
    /\ algorithm_name = "UCS"
    /\ summary.outcome = "SOLUTION_FOUND"
    /\ summary.cell_values_tried >= 3
    /\ summary.cell_values_tried = puzzle.undefined_cell_count
====
